---- MODULE Spec2Model ----
(***************************************************************************)
(* A state-machine model of the staff-management server                    *)
(* (guideservice-fun/gfmspnl): the route handlers of server/routes.ts and  *)
(* server/auth.ts over the tables of shared/schema.ts, reached through     *)
(* the storage layer (server/storage.ts).                                  *)
(*                                                                         *)
(* Granularity.  Every handler is async; it can be interleaved with other  *)
(* requests at each `await` of a storage call.  A handler is therefore     *)
(* modelled as one action per storage call, each action carrying the       *)
(* synchronous code that follows the call up to the next await (or up to   *)
(* the response).  A request lives in a slot; a finished request keeps its *)
(* response in the slot until the next request takes the slot.             *)
(*                                                                         *)
(* Each subsystem has its own specification (SpecAttendance, SpecRoles,    *)
(* SpecAccess, ...) over the same variables; the variables a subsystem     *)
(* does not touch stay unchanged in it.                                    *)
(***************************************************************************)
EXTENDS Integers, Sequences, FiniteSets, TLC

VARIABLES
    users,           \* table users: sequence of rows, id = index
    session,         \* session store: client -> id of the logged-in user, or Null
    roles,           \* table roles: set of rows [id, name]
    nextRoleId,      \* identity generator of roles.id
    accessRequests,  \* table access_requests: sequence of rows, id = index
    attendance,      \* table attendance: sequence of rows, id = index
    now,             \* the wall clock (new Date()), in ticks
    attReqs,         \* in-flight clock-in / clock-out requests, per slot
    roleReqs,        \* in-flight role requests, per slot
    accReqs,         \* in-flight access-request and login requests, per slot
    tasks,           \* table tasks: sequence of rows, id = index
    workReports,     \* table work_reports: sequence of rows, id = index
    workReqs,        \* in-flight task, report and list requests, per slot
    messages,        \* table messages: sequence of rows, id = index
    clients,         \* routes.ts `clients`: the set of WebSocket connections
    conns,           \* every WebSocket connection: its readyState and last event
    sent,            \* per connection, the frames written to it by send()
    chatReqs,        \* in-flight chat requests, per slot
    mails,           \* the sendEmail calls under way, and how the last one to settle settled
    pwCheck,         \* a call of comparePasswords: its arguments and how it ended
    userReqs,        \* in-flight requests of the routes that answer with users, per slot
    page,            \* a browser's chat page: mounted, wsRef, the messages query
    socks            \* the browser's WebSocket objects: state, pending reconnect timer

vars == <<users, session, roles, nextRoleId, accessRequests, attendance, now,
          attReqs, roleReqs, accReqs, tasks, workReports, workReqs,
          messages, clients, conns, sent, chatReqs, mails,
          pwCheck, userReqs, page, socks>>

\* ------------------------------------------------------------------ bounds
\* request slots: how many requests of one subsystem can be in flight at once
NumSlots == 2
\* the clock stops at MaxTime
MaxTime == 3
\* ticks per UTC calendar day
TicksPerDay == 2
\* the attendance table holds at most MaxAtt rows
MaxAtt == 2

\* SQL NULL / JS null / undefined for ids and timestamps (ids and ticks start at 1)
Null == 0

Slots == 1..NumSlots
Clients == DOMAIN session

\* what a subsystem that does not touch tasks and reports, the chat, or the
\* mails leaves alone
WorkUnchanged == UNCHANGED <<tasks, workReports, workReqs>>
ChatUnchanged == UNCHANGED <<messages, clients, conns, sent, chatReqs>>
ClientUnchanged == UNCHANGED <<pwCheck, userReqs, page, socks>>

\* a subsystem's specification starts with the other subsystems' state empty
NoMail == [pending |-> {}, settled |-> [outcome |-> "none", result |-> "none"]]
WorkEmpty == tasks = <<>> /\ workReports = <<>> /\ workReqs = <<>>
ChatEmpty ==
    /\ messages = <<>> /\ clients = {} /\ conns = <<>> /\ sent = <<>>
    /\ chatReqs = <<>>
ClientEmpty == pwCheck = <<>> /\ userReqs = <<>> /\ page = <<>> /\ socks = <<>>

\* ------------------------------------------------------------------ users
\* auth.ts: the hard-coded administrator created by initializeAdmin
ADMIN_USERNAME == "grovefanreal"
ADMIN_PASSWORD == "Grovefan@2207"

\* scrypt(password, salt, 64): a deterministic digest of (password, salt); the model
\* takes it collision-free
Scrypt(password, salt) == <<password, salt>>

\* hashPassword's result `${hex}.${salt}`, as its two '.'-separated parts
HashWithSalt(password, salt) == <<Scrypt(password, salt), salt>>

\* comparePasswords: split the stored value at '.', re-derive, compare
comparePasswords(supplied, stored) == stored[1] = Scrypt(supplied, stored[2])

AdminRow ==
    [username |-> ADMIN_USERNAME, password |-> HashWithSalt(ADMIN_PASSWORD, "s0"),
     email |-> "admin@grovefan.com", name |-> "Admin",
     isAdmin |-> TRUE, roleId |-> Null, isApproved |-> TRUE]

\* an approve handler that leaves isApproved to the column default
UserFromRequest_NotApproved(request) ==
    [username |-> request.username, password |-> request.password,
     email |-> request.email, name |-> request.name,
     isAdmin |-> FALSE, roleId |-> Null, isApproved |-> FALSE]

\* the row the approve handler inserts for an access request
UserFromRequest(request) ==
    [username |-> request.username, password |-> request.password,
     email |-> request.email, name |-> request.name,
     isAdmin |-> FALSE, roleId |-> Null, isApproved |-> TRUE]

UserIds == DOMAIN users

\* requireAuth: req.isAuthenticated()
requireAuth(c) == session[c] # Null

\* a requireAdmin that asks for a session only
requireAdmin_AnySession(c) == session[c] # Null

\* requireAdmin: req.isAuthenticated() && req.user.isAdmin (req.user is re-read from
\* the users table on every request by deserializeUser)
requireAdmin(c) == session[c] # Null /\ users[session[c]].isAdmin

\* ------------------------------------------------------------------ attendance
\* new Date().toISOString().split("T")[0]: the UTC calendar day of an instant
DateOf(t) == t \div TicksPerDay

IdleAttReq ==
    [op |-> "none", pc |-> "idle", user |-> Null, today |-> 0,
     existing |-> Null, at |-> Null, status |-> 0]

\* the ids of the rows matched by getTodayAttendance's WHERE clause
TodayRows(userId, date) ==
    {i \in DOMAIN attendance :
        attendance[i].userId = userId /\ attendance[i].date = date}

\* a lookup by user alone, whatever the date
getTodayAttendance_AnyDate(userId, date) ==
    IF {i \in DOMAIN attendance : attendance[i].userId = userId} = {} THEN {Null}
    ELSE {i \in DOMAIN attendance : attendance[i].userId = userId}

\* getTodayAttendance: `const [record] = await db.select()...`: the first row of
\* the result or undefined.  The query has no ORDER BY, so with several matching
\* rows any of them may come first.
getTodayAttendance(userId, date) ==
    IF TodayRows(userId, date) = {} THEN {Null} ELSE TodayRows(userId, date)

\* clock-in handler, the guard after the read: `if (existing)`
ClockInConflict(existing) == existing # Null

\* a clock-out handler that has lost its second guard, `if (existing.clockOut)`
ClockOutConflict_NoClockOutGuard(existing) == existing = Null

\* clock-out handler, the guards after the read: `if (!existing)`, `if (existing.clockOut)`
ClockOutConflict(existing) ==
    existing = Null \/ attendance[existing].clockOut # Null

\* createAttendance: INSERT ... RETURNING
createAttendance(record) == Append(attendance, record)

\* updateAttendance(id, {clockOut}): UPDATE ... WHERE id = id
updateAttendance(id, clockOut) == [attendance EXCEPT ![id].clockOut = clockOut]

AttOthersUnchanged ==
    /\ UNCHANGED <<users, session, roles, nextRoleId, accessRequests, roleReqs, accReqs>>
    /\ WorkUnchanged /\ ChatUnchanged /\ ClientUnchanged /\ UNCHANGED mails

\* A clock-in or clock-out request of client c arrives: requireAuth, then the
\* handler's first line computes `today`.
AttStart(s, c, op) ==
    /\ attReqs[s].pc \in {"idle", "done"}
    /\ attReqs' = [attReqs EXCEPT ![s] =
          IF requireAuth(c)
          THEN [IdleAttReq EXCEPT !.op = op, !.pc = "read",
                                  !.user = session[c], !.today = DateOf(now)]
          ELSE [IdleAttReq EXCEPT !.op = op, !.pc = "done", !.status = 401]]
    /\ UNCHANGED <<attendance, now>>
    /\ AttOthersUnchanged

\* clock-in: `existing = await storage.getTodayAttendance(...)`, the guard, and
\* `clockIn: new Date()` of the insert that is issued next
ClockInRead(s) ==
    /\ attReqs[s].pc = "read" /\ attReqs[s].op = "clockin"
    /\ \E existing \in getTodayAttendance(attReqs[s].user, attReqs[s].today) :
          attReqs' = [attReqs EXCEPT ![s] =
             IF ClockInConflict(existing)
             THEN [@ EXCEPT !.pc = "done", !.existing = existing, !.status = 400]
             ELSE [@ EXCEPT !.pc = "write", !.existing = existing, !.at = now]]
    /\ UNCHANGED <<attendance, now>>
    /\ AttOthersUnchanged

\* clock-in: `await storage.createAttendance(...)`, then 201
ClockInInsert(s) ==
    /\ attReqs[s].pc = "write" /\ attReqs[s].op = "clockin"
    /\ Len(attendance) < MaxAtt
    /\ attendance' = createAttendance(
          [userId |-> attReqs[s].user, clockIn |-> attReqs[s].at,
           clockOut |-> Null, date |-> attReqs[s].today])
    /\ attReqs' = [attReqs EXCEPT ![s].pc = "done", ![s].status = 201]
    /\ UNCHANGED now
    /\ AttOthersUnchanged

\* clock-out: the read, the two guards, and `clockOut: new Date()` of the update
ClockOutRead(s) ==
    /\ attReqs[s].pc = "read" /\ attReqs[s].op = "clockout"
    /\ \E existing \in getTodayAttendance(attReqs[s].user, attReqs[s].today) :
          attReqs' = [attReqs EXCEPT ![s] =
             IF ClockOutConflict(existing)
             THEN [@ EXCEPT !.pc = "done", !.existing = existing, !.status = 400]
             ELSE [@ EXCEPT !.pc = "write", !.existing = existing, !.at = now]]
    /\ UNCHANGED <<attendance, now>>
    /\ AttOthersUnchanged

\* clock-out: `await storage.updateAttendance(existing.id, {clockOut})`, then 200
ClockOutUpdate(s) ==
    /\ attReqs[s].pc = "write" /\ attReqs[s].op = "clockout"
    /\ attendance' = updateAttendance(attReqs[s].existing, attReqs[s].at)
    /\ attReqs' = [attReqs EXCEPT ![s].pc = "done", ![s].status = 200]
    /\ UNCHANGED now
    /\ AttOthersUnchanged

\* time passes
Tick ==
    /\ now < MaxTime
    /\ now' = now + 1
    /\ UNCHANGED <<attendance, attReqs>>
    /\ AttOthersUnchanged

\* The state after start-up (initializeAdmin has run) and after the administrator
\* has approved the access requests of two staff members: user 1 (admin) is logged
\* in on client 1, user 2 (staff) on client 2, client 3 has no session.
StaffRequests ==
    << [username |-> "alice", email |-> "alice@x.org",
        password |-> HashWithSalt("pw1", "s1"), name |-> "Alice", status |-> "approved"],
       [username |-> "bob", email |-> "bob@x.org",
        password |-> HashWithSalt("pw2", "s2"), name |-> "Bob", status |-> "approved"] >>

Staffed ==
    /\ users = <<AdminRow, UserFromRequest(StaffRequests[1]),
                 UserFromRequest(StaffRequests[2])>>
    /\ session = <<1, 2, Null>>
    /\ roles = {}
    /\ nextRoleId = 1
    /\ accessRequests = StaffRequests
    /\ attendance = <<>>
    /\ now = 1

InitAttendance ==
    /\ Staffed
    /\ attReqs = [s \in Slots |-> IdleAttReq]
    /\ roleReqs = <<>>
    /\ accReqs = <<>>
    /\ WorkEmpty /\ ChatEmpty /\ ClientEmpty /\ mails = NoMail

NextAttendance ==
    \/ \E s \in Slots, c \in Clients, op \in {"clockin", "clockout"} : AttStart(s, c, op)
    \/ \E s \in Slots : ClockInRead(s)
    \/ \E s \in Slots : ClockInInsert(s)
    \/ \E s \in Slots : ClockOutRead(s)
    \/ \E s \in Slots : ClockOutUpdate(s)
    \/ Tick

SpecAttendance == InitAttendance /\ [][NextAttendance]_vars

\* One request at a time: a request starts only when no other one is in flight.
NoAttInFlight == \A s \in Slots : attReqs[s].pc \in {"idle", "done"}

NextAttendanceSeq ==
    \/ \E s \in Slots, c \in Clients, op \in {"clockin", "clockout"} :
          NoAttInFlight /\ AttStart(s, c, op)
    \/ \E s \in Slots : ClockInRead(s)
    \/ \E s \in Slots : ClockInInsert(s)
    \/ \E s \in Slots : ClockOutRead(s)
    \/ \E s \in Slots : ClockOutUpdate(s)
    \/ Tick

SpecAttendanceSeq == InitAttendance /\ [][NextAttendanceSeq]_vars

\* ------------------------------------------------------------------ roles
\* the largest role id the identity generator hands out
MaxRoleId == 2

\* the roleId values a PATCH /api/users/:id/role body carries: null or any number
RoleIdInputs == 0..MaxRoleId
RoleNames == {"dev", "ops"}

IdleRoleReq ==
    [op |-> "none", pc |-> "idle", id |-> Null, userId |-> Null, roleId |-> Null,
     detached |-> 0, status |-> 0]

\* the rows that hold role id: the rows deleteRole's UPDATE matches
HoldersOf(id) == {u \in DOMAIN users : users[u].roleId = id}

\* assignRoleToUser: UPDATE users SET role_id = roleId WHERE id = userId
assignRoleToUser(userId, roleId) ==
    [u \in DOMAIN users |->
        IF u = userId THEN [users[u] EXCEPT !.roleId = roleId] ELSE users[u]]

\* a deleteRole whose first statement detaches nobody
detachRole_Skipped(id) == users

\* deleteRole, first statement: UPDATE users SET role_id = NULL WHERE role_id = id
detachRole(id) ==
    [u \in DOMAIN users |->
        IF users[u].roleId = id THEN [users[u] EXCEPT !.roleId = Null] ELSE users[u]]

\* deleteRole, second statement: DELETE FROM roles WHERE id = id
deleteRoleRow(id) == {r \in roles : r.id # id}

RoleOthersUnchanged ==
    /\ UNCHANGED <<session, accessRequests, attendance, now, attReqs, accReqs>>
    /\ WorkUnchanged /\ ChatUnchanged /\ ClientUnchanged /\ UNCHANGED mails

\* PATCH /api/users/:userId/role {roleId} or DELETE /api/roles/:id arrives:
\* requireAdmin
RoleStart(s, c, op, id, userId, roleId) ==
    /\ roleReqs[s].pc \in {"idle", "done"}
    /\ roleReqs' = [roleReqs EXCEPT ![s] =
          IF ~requireAdmin(c)
          THEN [IdleRoleReq EXCEPT !.op = op, !.pc = "done", !.status = 403]
          ELSE IF op = "assign"
          THEN [IdleRoleReq EXCEPT !.op = op, !.pc = "assign",
                                   !.userId = userId, !.roleId = roleId]
          ELSE [IdleRoleReq EXCEPT !.op = op, !.pc = "detach", !.id = id]]
    /\ UNCHANGED <<users, roles, nextRoleId>>
    /\ RoleOthersUnchanged

\* PATCH /api/users/:id/role: `await storage.assignRoleToUser(userId, roleId)`, 200
RoleAssign(s) ==
    /\ roleReqs[s].pc = "assign"
    /\ users' = assignRoleToUser(roleReqs[s].userId, roleReqs[s].roleId)
    /\ roleReqs' = [roleReqs EXCEPT ![s] =
          [IdleRoleReq EXCEPT !.op = "assign", !.pc = "done", !.status = 200]]
    /\ UNCHANGED <<roles, nextRoleId>>
    /\ RoleOthersUnchanged

\* DELETE /api/roles/:id, deleteRole's first await (`detached` is the UPDATE's row
\* count; the handler does not read it)
RoleDetach(s) ==
    /\ roleReqs[s].pc = "detach"
    /\ users' = detachRole(roleReqs[s].id)
    /\ roleReqs' = [roleReqs EXCEPT ![s].pc = "delete",
                                    ![s].detached = Cardinality(HoldersOf(roleReqs[s].id))]
    /\ UNCHANGED <<roles, nextRoleId>>
    /\ RoleOthersUnchanged

\* DELETE /api/roles/:id, deleteRole's second await, then 200
RoleDeleteRow(s) ==
    /\ roleReqs[s].pc = "delete"
    /\ roles' = deleteRoleRow(roleReqs[s].id)
    /\ roleReqs' = [roleReqs EXCEPT ![s].pc = "done", ![s].status = 200]
    /\ UNCHANGED <<users, nextRoleId>>
    /\ RoleOthersUnchanged

\* POST /api/roles {name}: requireAdmin, `await storage.createRole(...)`, 201; the
\* unique constraint on roles.name makes the insert throw, which the handler's
\* catch answers with 500.  (The colour of a role is not modelled.)
RoleCreate(s, c, name) ==
    /\ roleReqs[s].pc \in {"idle", "done"}
    /\ nextRoleId <= MaxRoleId
    /\ IF ~requireAdmin(c)
       THEN /\ roleReqs' = [roleReqs EXCEPT ![s] =
                  [IdleRoleReq EXCEPT !.op = "create", !.pc = "done", !.status = 403]]
            /\ UNCHANGED <<roles, nextRoleId>>
       ELSE IF \E r \in roles : r.name = name
       THEN /\ roleReqs' = [roleReqs EXCEPT ![s] =
                  [IdleRoleReq EXCEPT !.op = "create", !.pc = "done", !.status = 500]]
            /\ UNCHANGED <<roles, nextRoleId>>
       ELSE /\ roles' = roles \cup {[id |-> nextRoleId, name |-> name]}
            /\ nextRoleId' = nextRoleId + 1
            /\ roleReqs' = [roleReqs EXCEPT ![s] =
                  [IdleRoleReq EXCEPT !.op = "create", !.pc = "done",
                                      !.id = nextRoleId, !.status = 201]]
    /\ UNCHANGED users
    /\ RoleOthersUnchanged

InitRoles ==
    /\ Staffed
    /\ attReqs = <<>>
    /\ roleReqs = [s \in Slots |-> IdleRoleReq]
    /\ accReqs = <<>>
    /\ WorkEmpty /\ ChatEmpty /\ ClientEmpty /\ mails = NoMail

NextRoles ==
    \/ \E s \in Slots, c \in Clients, userId \in DOMAIN users, roleId \in RoleIdInputs :
          RoleStart(s, c, "assign", Null, userId, roleId)
    \/ \E s \in Slots, c \in Clients, id \in 1..MaxRoleId :
          RoleStart(s, c, "delete", id, Null, Null)
    \/ \E s \in Slots : RoleAssign(s)
    \/ \E s \in Slots : RoleDetach(s)
    \/ \E s \in Slots : RoleDeleteRow(s)
    \/ \E s \in Slots, c \in Clients, name \in RoleNames : RoleCreate(s, c, name)

SpecRoles == InitRoles /\ [][NextRoles]_vars

\* One request at a time.
NoRoleInFlight == \A s \in Slots : roleReqs[s].pc \in {"idle", "done"}

NextRolesSeq ==
    \/ \E s \in Slots, c \in Clients, userId \in DOMAIN users, roleId \in RoleIdInputs :
          NoRoleInFlight /\ RoleStart(s, c, "assign", Null, userId, roleId)
    \/ \E s \in Slots, c \in Clients, id \in 1..MaxRoleId :
          NoRoleInFlight /\ RoleStart(s, c, "delete", id, Null, Null)
    \/ \E s \in Slots : RoleAssign(s)
    \/ \E s \in Slots : RoleDetach(s)
    \/ \E s \in Slots : RoleDeleteRow(s)
    \/ \E s \in Slots, c \in Clients, name \in RoleNames :
          NoRoleInFlight /\ RoleCreate(s, c, name)

SpecRolesSeq == InitRoles /\ [][NextRolesSeq]_vars

\* ------------------------------------------------------------------ access requests, login
\* the ids a /api/access-requests/:id/approve or /reject request names
MaxAccId == 2
AccIdInputs == 1..MaxAccId

\* the bodies POST /api/access-requests is sent with: two people asking for the
\* same username, and one of them asking for the administrator's
SubmitBodies ==
    { [username |-> "alice", email |-> "alice@x.org", name |-> "Alice", password |-> "pw1"],
      [username |-> "alice", email |-> "bob@x.org", name |-> "Bob", password |-> "pw2"],
      [username |-> ADMIN_USERNAME, email |-> "bob@x.org", name |-> "Bob", password |-> "pw2"] }

\* randomBytes(16).toString("hex")
Salts == {"s1", "s2"}

\* what POST /api/login is sent with
LoginUsernames == {ADMIN_USERNAME, "alice", "bob"}
LoginPasswords == {ADMIN_PASSWORD, "pw1", "pw2"}

NoRow == [username |-> "", email |-> "", password |-> <<>>, name |-> "", status |-> ""]

IdleAccReq ==
    [op |-> "none", pc |-> "idle", id |-> Null, request |-> NoRow, plain |-> "",
     status |-> 0]

\* getUserByUsername: the row with that username (usernames are unique), or undefined
getUserByUsername(table, username) ==
    IF \E u \in DOMAIN table : table[u].username = username
    THEN CHOOSE u \in DOMAIN table : table[u].username = username
    ELSE Null

\* a lookup that only sees the requests that are still pending
getAccessRequestByUsername_PendingOnly(username) ==
    IF \E i \in DOMAIN accessRequests :
          accessRequests[i].username = username /\ accessRequests[i].status = "pending"
    THEN CHOOSE i \in DOMAIN accessRequests :
          accessRequests[i].username = username /\ accessRequests[i].status = "pending"
    ELSE Null

\* getAccessRequestByUsername: the row with that username, whatever its status
getAccessRequestByUsername(username) ==
    IF \E i \in DOMAIN accessRequests : accessRequests[i].username = username
    THEN CHOOSE i \in DOMAIN accessRequests : accessRequests[i].username = username
    ELSE Null

\* getAccessRequest(id)
getAccessRequest(id) == IF id \in DOMAIN accessRequests THEN id ELSE Null

\* createAccessRequest: INSERT; status takes the column default "pending"
createAccessRequest(request) == Append(accessRequests, [request EXCEPT !.status = "pending"])

\* updateAccessRequestStatus: UPDATE access_requests SET status WHERE id
updateAccessRequestStatus(id, status) ==
    [i \in DOMAIN accessRequests |->
        IF i = id THEN [accessRequests[i] EXCEPT !.status = status] ELSE accessRequests[i]]

\* createUser: INSERT INTO users
createUser(user) == Append(users, user)

\* an approve handler that only refuses rejected requests
ApproveConflict_RejectedOnly(request) == request.status = "rejected"

\* approve handler: `if (request.status !== "pending")`
ApproveConflict(request) == request.status # "pending"

\* a verify callback without the approval check
AccountUsable_Always(user) == TRUE

\* LocalStrategy verify, the negation of `!user.isApproved && !user.isAdmin`
AccountUsable(user) == user.isApproved \/ user.isAdmin

\* LocalStrategy verify callback: the id of the user that is logged in, or Null
\* for done(null, false)
Verify(table, username, password) ==
    LET u == getUserByUsername(table, username)
    IN  IF u = Null THEN Null
        ELSE IF ~AccountUsable(table[u]) THEN Null
        ELSE IF ~comparePasswords(password, table[u].password) THEN Null
        ELSE u

\* send<Kind>Email(to, ...) is called and not awaited: a sendEmail call to each of
\* the addresses is under way
SendMail(kind, tos) ==
    [mails EXCEPT !.pending = @ \cup {[kind |-> kind, to |-> to] : to \in tos \ {""}}]

AccFrame ==
    /\ UNCHANGED <<roles, nextRoleId, attendance, now, attReqs, roleReqs>>
    /\ WorkUnchanged /\ ChatUnchanged /\ ClientUnchanged

AccOthersUnchanged == AccFrame /\ UNCHANGED mails

\* POST /api/access-requests arrives (no auth): the body is destructured
SubmitStart(s, body) ==
    /\ accReqs[s].pc \in {"idle", "done"}
    /\ accReqs' = [accReqs EXCEPT ![s] =
          [IdleAccReq EXCEPT !.op = "submit", !.pc = "checkUser",
              !.request = [username |-> body.username, email |-> body.email,
                           password |-> <<>>, name |-> body.name, status |-> ""],
              !.plain = body.password]]
    /\ UNCHANGED <<users, session, accessRequests>>
    /\ AccOthersUnchanged

\* `existingUser = await storage.getUserByUsername(username)`, 400 if there is one
SubmitCheckUser(s) ==
    /\ accReqs[s].op = "submit" /\ accReqs[s].pc = "checkUser"
    /\ accReqs' = [accReqs EXCEPT ![s] =
          IF getUserByUsername(users, accReqs[s].request.username) # Null
          THEN [@ EXCEPT !.pc = "done", !.plain = "", !.status = 400]
          ELSE [@ EXCEPT !.pc = "checkRequest"]]
    /\ UNCHANGED <<users, session, accessRequests>>
    /\ AccOthersUnchanged

\* `existingRequest = await storage.getAccessRequestByUsername(username)`, 400 if
\* there is one; else `await hashPassword(password)` with a fresh salt
SubmitCheckRequest(s) ==
    /\ accReqs[s].op = "submit" /\ accReqs[s].pc = "checkRequest"
    /\ \E salt \in Salts :
          accReqs' = [accReqs EXCEPT ![s] =
             IF getAccessRequestByUsername(accReqs[s].request.username) # Null
             THEN [@ EXCEPT !.pc = "done", !.plain = "", !.status = 400]
             ELSE [@ EXCEPT !.pc = "insert", !.plain = "",
                            !.request.password = HashWithSalt(accReqs[s].plain, salt)]]
    /\ UNCHANGED <<users, session, accessRequests>>
    /\ AccOthersUnchanged

\* `await storage.createAccessRequest(...)`, 201; access_requests.username is
\* unique: the insert of a second row for a username throws, and the catch
\* answers 500
SubmitInsert(s) ==
    /\ accReqs[s].op = "submit" /\ accReqs[s].pc = "insert"
    /\ IF \E i \in DOMAIN accessRequests :
             accessRequests[i].username = accReqs[s].request.username
       THEN /\ accReqs' = [accReqs EXCEPT ![s].pc = "done", ![s].status = 500]
            /\ UNCHANGED accessRequests
       ELSE /\ accessRequests' = createAccessRequest(accReqs[s].request)
            /\ accReqs' = [accReqs EXCEPT ![s].pc = "done", ![s].status = 201,
                                         ![s].id = Len(accessRequests) + 1]
    /\ UNCHANGED <<users, session>>
    /\ AccOthersUnchanged

\* POST /api/access-requests/:id/approve or /reject arrives: requireAdmin
DecideStart(s, c, op, id) ==
    /\ accReqs[s].pc \in {"idle", "done"}
    /\ accReqs' = [accReqs EXCEPT ![s] =
          IF requireAdmin(c)
          THEN [IdleAccReq EXCEPT !.op = op, !.pc = "read", !.id = id]
          ELSE [IdleAccReq EXCEPT !.op = op, !.pc = "done", !.id = id, !.status = 403]]
    /\ UNCHANGED <<users, session, accessRequests>>
    /\ AccOthersUnchanged

\* approve: `request = await storage.getAccessRequest(requestId)`, 404, 400
ApproveRead(s) ==
    /\ accReqs[s].op = "approve" /\ accReqs[s].pc = "read"
    /\ accReqs' = [accReqs EXCEPT ![s] =
          IF getAccessRequest(accReqs[s].id) = Null
          THEN [@ EXCEPT !.pc = "done", !.status = 404]
          ELSE IF ApproveConflict(accessRequests[accReqs[s].id])
          THEN [@ EXCEPT !.pc = "done", !.status = 400,
                         !.request = accessRequests[accReqs[s].id]]
          ELSE [@ EXCEPT !.pc = "createUser", !.request = accessRequests[accReqs[s].id]]]
    /\ UNCHANGED <<users, session, accessRequests>>
    /\ AccOthersUnchanged

\* approve: `await storage.createUser({...})`; users.username is unique: a second
\* insert for the username throws, and the catch answers 500
ApproveCreateUser(s) ==
    /\ accReqs[s].op = "approve" /\ accReqs[s].pc = "createUser"
    /\ IF getUserByUsername(users, accReqs[s].request.username) # Null
       THEN /\ accReqs' = [accReqs EXCEPT ![s].pc = "done", ![s].status = 500]
            /\ UNCHANGED users
       ELSE /\ users' = createUser(UserFromRequest(accReqs[s].request))
            /\ accReqs' = [accReqs EXCEPT ![s].pc = "updateStatus"]
    /\ UNCHANGED <<session, accessRequests>>
    /\ AccOthersUnchanged

\* approve: `await storage.updateAccessRequestStatus(requestId, "approved")`,
\* sendAccessApprovedEmail (not awaited) if the request has an email, 200
ApproveUpdateStatus(s) ==
    /\ accReqs[s].op = "approve" /\ accReqs[s].pc = "updateStatus"
    /\ accessRequests' = updateAccessRequestStatus(accReqs[s].id, "approved")
    /\ mails' = SendMail("access_approved", {accReqs[s].request.email})
    /\ accReqs' = [accReqs EXCEPT ![s].pc = "done", ![s].status = 200]
    /\ UNCHANGED <<users, session>>
    /\ AccFrame

\* reject: `request = await storage.getAccessRequest(requestId)`, 404
RejectRead(s) ==
    /\ accReqs[s].op = "reject" /\ accReqs[s].pc = "read"
    /\ accReqs' = [accReqs EXCEPT ![s] =
          IF getAccessRequest(accReqs[s].id) = Null
          THEN [@ EXCEPT !.pc = "done", !.status = 404]
          ELSE [@ EXCEPT !.pc = "updateStatus", !.request = accessRequests[accReqs[s].id]]]
    /\ UNCHANGED <<users, session, accessRequests>>
    /\ AccOthersUnchanged

\* reject: `await storage.updateAccessRequestStatus(requestId, "rejected")`,
\* sendAccessRejectedEmail (not awaited) if the request has an email, 200
RejectUpdateStatus(s) ==
    /\ accReqs[s].op = "reject" /\ accReqs[s].pc = "updateStatus"
    /\ accessRequests' = updateAccessRequestStatus(accReqs[s].id, "rejected")
    /\ mails' = SendMail("access_rejected", {accReqs[s].request.email})
    /\ accReqs' = [accReqs EXCEPT ![s].pc = "done", ![s].status = 200]
    /\ UNCHANGED <<users, session>>
    /\ AccFrame

\* POST /api/login of client c: passport.authenticate runs the verify callback;
\* without a user 401, else req.login(user) stores the user's id in the client's
\* session, 200.  The slot records the row the username names (id), the password
\* supplied (plain) and the answer.
Login(s, c, username, password) ==
    /\ accReqs[s].pc \in {"idle", "done"}
    /\ LET u == Verify(users, username, password)
       IN  /\ session' = IF u = Null THEN session ELSE [session EXCEPT ![c] = u]
           /\ accReqs' = [accReqs EXCEPT ![s] =
                 [IdleAccReq EXCEPT !.op = "login", !.pc = "done",
                     !.id = getUserByUsername(users, username), !.plain = password,
                     !.status = IF u = Null THEN 401 ELSE 200]]
    /\ UNCHANGED <<users, accessRequests>>
    /\ AccOthersUnchanged

\* POST /api/logout of client c: req.logout
Logout(c) ==
    /\ session[c] # Null
    /\ session' = [session EXCEPT ![c] = Null]
    /\ UNCHANGED <<users, accessRequests, accReqs>>
    /\ AccOthersUnchanged

\* The state after start-up: initializeAdmin has created the administrator, nobody
\* is logged in.
InitAccess ==
    /\ users = <<AdminRow>>
    /\ session = <<Null, Null>>
    /\ roles = {}
    /\ nextRoleId = 1
    /\ accessRequests = <<>>
    /\ attendance = <<>>
    /\ now = 1
    /\ attReqs = <<>>
    /\ roleReqs = <<>>
    /\ accReqs = [s \in Slots |-> IdleAccReq]
    /\ WorkEmpty /\ ChatEmpty /\ ClientEmpty /\ mails = NoMail

NextAccess ==
    \/ \E s \in Slots, body \in SubmitBodies : SubmitStart(s, body)
    \/ \E s \in Slots : SubmitCheckUser(s)
    \/ \E s \in Slots : SubmitCheckRequest(s)
    \/ \E s \in Slots : SubmitInsert(s)
    \/ \E s \in Slots, c \in Clients, op \in {"approve", "reject"}, id \in AccIdInputs :
          DecideStart(s, c, op, id)
    \/ \E s \in Slots : ApproveRead(s)
    \/ \E s \in Slots : ApproveCreateUser(s)
    \/ \E s \in Slots : ApproveUpdateStatus(s)
    \/ \E s \in Slots : RejectRead(s)
    \/ \E s \in Slots : RejectUpdateStatus(s)
    \/ \E s \in Slots, c \in Clients, username \in LoginUsernames,
          password \in LoginPasswords : Login(s, c, username, password)

SpecAccess == InitAccess /\ [][NextAccess]_vars

\* Login and logout alone, over a users table that also holds a row with neither
\* flag set.  is_approved and is_admin default to false in the schema; the routes
\* of this repository insert users only with isApproved true, so such a row comes
\* from outside them (a seed, an earlier registration path, SQL).
PendingRow ==
    [username |-> "bob", password |-> HashWithSalt("pw2", "s2"),
     email |-> "bob@x.org", name |-> "Bob",
     isAdmin |-> FALSE, roleId |-> Null, isApproved |-> FALSE]

InitLogin ==
    /\ users = <<AdminRow, UserFromRequest(StaffRequests[1]), PendingRow>>
    /\ session = <<Null, Null>>
    /\ roles = {}
    /\ nextRoleId = 1
    /\ accessRequests = <<StaffRequests[1]>>
    /\ attendance = <<>>
    /\ now = 1
    /\ attReqs = <<>>
    /\ roleReqs = <<>>
    /\ accReqs = [s \in Slots |-> IdleAccReq]
    /\ WorkEmpty /\ ChatEmpty /\ ClientEmpty /\ mails = NoMail

NextLogin ==
    \/ \E s \in Slots, c \in Clients, username \in LoginUsernames,
          password \in LoginPasswords : Login(s, c, username, password)
    \/ \E c \in Clients : Logout(c)

SpecLogin == InitLogin /\ [][NextLogin]_vars

\* ------------------------------------------------------------------ tasks, work reports, lists
\* the tasks table holds at most MaxTasks rows, work_reports at most MaxReports
MaxTasks == 2
MaxReports == 2

\* the ids a /api/tasks/:id or /api/reports/:id request names
TaskIdInputs == 1..MaxTasks
ReportIdInputs == 1..MaxReports

\* The bodies of POST /api/tasks: {title, description, priority, assignedTo,
\* dueDate}; a field the body leaves out is "" (text) or Null (number).  The
\* route hands them to the insert unvalidated.
TaskCreateBodies ==
    { [title |-> "Ship report", description |-> "", priority |-> "high",
       assignedTo |-> 2, dueDate |-> Null],
      [title |-> "Tidy up", description |-> "desk", priority |-> "",
       assignedTo |-> Null, dueDate |-> Null],
      [title |-> "Ship report", description |-> "", priority |-> "urgent",
       assignedTo |-> 3, dueDate |-> Null] }

\* The bodies of PATCH /api/tasks/:id: any subset of the columns, any value
TaskPatchBodies ==
    { [status |-> "in_progress"], [status |-> "completed"], [status |-> "done"],
      [title |-> "Renamed", priority |-> "urgent"], [assignedTo |-> 3, createdBy |-> 2] }

\* the `my` query parameter of GET /api/tasks
TaskListQueries == { [my |-> "my"], [my |-> ""] }

\* The bodies of POST /api/reports and of PATCH /api/reports/:id
ReportCreateBodies == { [title |-> "Week 1", content |-> "done a, b"] }
ReportStatusBodies == { [status |-> "reviewed"], [status |-> "pending"], [status |-> "archived"] }

IdleWorkReq ==
    [op |-> "none", pc |-> "idle", user |-> Null, id |-> Null, body |-> <<>>,
     result |-> {}, status |-> 0]

\* the operations behind requireAdmin; the others are behind requireAuth
AdminWorkOps == {"createTask", "setReportStatus", "listRequests"}
AuthWorkOps == {"listTasks", "patchTask", "listAttendance", "listReports", "createReport"}

\* getTask: the row with that id, or undefined
getTask(id) == IF id \in DOMAIN tasks THEN id ELSE Null

\* getAllTasks, getTasksByUser: a list is modelled by the set of the ids of its rows
getAllTasks == DOMAIN tasks

\* a getTasksByUser that has lost its WHERE clause
getTasksByUser_Unfiltered(userId) == DOMAIN tasks

getTasksByUser(userId) == {t \in DOMAIN tasks : tasks[t].assignedTo = userId}

\* createTask: INSERT ... RETURNING
createTask(task) == Append(tasks, task)

\* updateTask: UPDATE tasks SET <every column of data> WHERE id = id
updateTask(id, data) ==
    [tasks EXCEPT ![id] =
        [f \in DOMAIN tasks[id] |-> IF f \in DOMAIN data THEN data[f] ELSE tasks[id][f]]]

getAllAttendance == DOMAIN attendance
getUserAttendance(userId) == {a \in DOMAIN attendance : attendance[a].userId = userId}

getAllWorkReports == DOMAIN workReports
getUserWorkReports(userId) == {r \in DOMAIN workReports : workReports[r].userId = userId}

\* createWorkReport: INSERT; status takes the column default
createWorkReport(report) ==
    Append(workReports, [userId |-> report.userId, title |-> report.title,
                         content |-> report.content, status |-> "pending"])

\* updateWorkReportStatus: UPDATE work_reports SET status = status WHERE id = id
updateWorkReportStatus(id, status) ==
    [r \in DOMAIN workReports |->
        IF r = id THEN [workReports[r] EXCEPT !.status = status] ELSE workReports[r]]

getAllAccessRequests == DOMAIN accessRequests

\* getAdmins: SELECT ... WHERE is_admin
getAdmins == {u \in DOMAIN users : users[u].isAdmin}

WorkOthersUnchanged ==
    /\ UNCHANGED <<users, session, roles, nextRoleId, accessRequests, attendance, now,
                   attReqs, roleReqs, accReqs>>
    /\ ChatUnchanged /\ ClientUnchanged

\* A request of client c arrives: requireAdmin (403) or requireAuth (401); req.user
\* is the session's user.  (A slot keeps the body of a create or update request
\* until the response is sent.)
WorkStart(s, c, op, id, body) ==
    /\ workReqs[s].pc \in {"idle", "done"}
    /\ workReqs' = [workReqs EXCEPT ![s] =
          IF op \in AdminWorkOps /\ ~requireAdmin(c)
          THEN [IdleWorkReq EXCEPT !.op = op, !.pc = "done", !.status = 403]
          ELSE IF op \in AuthWorkOps /\ ~requireAuth(c)
          THEN [IdleWorkReq EXCEPT !.op = op, !.pc = "done", !.status = 401]
          ELSE [IdleWorkReq EXCEPT !.op = op, !.pc = "run", !.user = session[c],
                                   !.id = id, !.body = body]]
    /\ UNCHANGED <<tasks, workReports, mails>>
    /\ WorkOthersUnchanged

\* GET /api/tasks: with ?my=my the caller's tasks; else all tasks for an admin and
\* the caller's tasks for anybody else
TaskList(s) ==
    /\ workReqs[s].op = "listTasks" /\ workReqs[s].pc = "run"
    /\ workReqs' = [workReqs EXCEPT ![s].pc = "done", ![s].status = 200,
          ![s].result =
              IF workReqs[s].body.my = "my" THEN getTasksByUser(workReqs[s].user)
              ELSE IF users[workReqs[s].user].isAdmin THEN getAllTasks
              ELSE getTasksByUser(workReqs[s].user)]
    /\ UNCHANGED <<tasks, workReports, mails>>
    /\ WorkOthersUnchanged

\* GET /api/attendance
AttendanceList(s) ==
    /\ workReqs[s].op = "listAttendance" /\ workReqs[s].pc = "run"
    /\ workReqs' = [workReqs EXCEPT ![s].pc = "done", ![s].status = 200,
          ![s].result =
              IF users[workReqs[s].user].isAdmin THEN getAllAttendance
              ELSE getUserAttendance(workReqs[s].user)]
    /\ UNCHANGED <<tasks, workReports, mails>>
    /\ WorkOthersUnchanged

\* GET /api/reports
ReportList(s) ==
    /\ workReqs[s].op = "listReports" /\ workReqs[s].pc = "run"
    /\ workReqs' = [workReqs EXCEPT ![s].pc = "done", ![s].status = 200,
          ![s].result =
              IF users[workReqs[s].user].isAdmin THEN getAllWorkReports
              ELSE getUserWorkReports(workReqs[s].user)]
    /\ UNCHANGED <<tasks, workReports, mails>>
    /\ WorkOthersUnchanged

\* GET /api/access-requests
RequestList(s) ==
    /\ workReqs[s].op = "listRequests" /\ workReqs[s].pc = "run"
    /\ workReqs' = [workReqs EXCEPT ![s].pc = "done", ![s].status = 200,
                                    ![s].result = getAllAccessRequests]
    /\ UNCHANGED <<tasks, workReports, mails>>
    /\ WorkOthersUnchanged

\* the row POST /api/tasks inserts for a body
TaskFromBody(body, userId) ==
    [title |-> body.title, description |-> body.description,
     priority |-> IF body.priority = "" THEN "medium" ELSE body.priority,
     status |-> "pending", assignedTo |-> body.assignedTo, createdBy |-> userId,
     dueDate |-> body.dueDate]

\* tasks.assigned_to and tasks.created_by reference users.id: a write whose data
\* names a user that does not exist is refused by the database
TaskRefsValid(data) ==
    /\ "assignedTo" \in DOMAIN data => data.assignedTo \in DOMAIN users \cup {Null}
    /\ "createdBy" \in DOMAIN data => data.createdBy \in DOMAIN users

\* POST /api/tasks: `task = await storage.createTask({...})`; an insert that the
\* database refuses throws, and the catch answers 500; without an assignee the
\* answer is 201 at once
TaskCreateInsert(s) ==
    /\ workReqs[s].op = "createTask" /\ workReqs[s].pc = "run"
    /\ Len(tasks) < MaxTasks
    /\ IF ~TaskRefsValid(TaskFromBody(workReqs[s].body, workReqs[s].user))
       THEN /\ workReqs' = [workReqs EXCEPT ![s].pc = "done", ![s].body = <<>>,
                                            ![s].status = 500]
            /\ UNCHANGED tasks
       ELSE /\ tasks' = createTask(TaskFromBody(workReqs[s].body, workReqs[s].user))
            /\ workReqs' = [workReqs EXCEPT ![s] =
                  IF workReqs[s].body.assignedTo # Null
                  THEN [@ EXCEPT !.id = Len(tasks) + 1, !.pc = "notify"]
                  ELSE [@ EXCEPT !.id = Len(tasks) + 1, !.pc = "done", !.body = <<>>,
                                 !.status = 201]]
    /\ UNCHANGED <<workReports, mails>>
    /\ WorkOthersUnchanged

\* POST /api/tasks: `assignedUser = await storage.getUser(assignedTo)`,
\* sendTaskAssignedEmail (not awaited), 201
TaskCreateNotify(s) ==
    /\ workReqs[s].op = "createTask" /\ workReqs[s].pc = "notify"
    /\ mails' = SendMail("task_assigned", {users[workReqs[s].body.assignedTo].email})
    /\ workReqs' = [workReqs EXCEPT ![s].pc = "done", ![s].body = <<>>, ![s].status = 201]
    /\ UNCHANGED <<tasks, workReports>>
    /\ WorkOthersUnchanged

\* PATCH /api/tasks/:id, the guard after the read:
\* `if (task.assignedTo !== req.user.id && !req.user.isAdmin)`
TaskPatchForbidden(task, userId) ==
    tasks[task].assignedTo # userId /\ ~users[userId].isAdmin

\* PATCH /api/tasks/:id: `task = await storage.getTask(taskId)`, 404, 403
TaskPatchRead(s) ==
    /\ workReqs[s].op = "patchTask" /\ workReqs[s].pc = "run"
    /\ workReqs' = [workReqs EXCEPT ![s] =
          IF getTask(workReqs[s].id) = Null
          THEN [@ EXCEPT !.pc = "done", !.body = <<>>, !.status = 404]
          ELSE IF TaskPatchForbidden(workReqs[s].id, workReqs[s].user)
          THEN [@ EXCEPT !.pc = "done", !.body = <<>>, !.status = 403]
          ELSE [@ EXCEPT !.pc = "update"]]
    /\ UNCHANGED <<tasks, workReports, mails>>
    /\ WorkOthersUnchanged

\* PATCH /api/tasks/:id: `updated = await storage.updateTask(taskId, req.body)`, 200
\* (500 when the database refuses the update)
TaskPatchUpdate(s) ==
    /\ workReqs[s].op = "patchTask" /\ workReqs[s].pc = "update"
    /\ IF ~TaskRefsValid(workReqs[s].body)
       THEN /\ workReqs' = [workReqs EXCEPT ![s].pc = "done", ![s].body = <<>>,
                                            ![s].status = 500]
            /\ UNCHANGED tasks
       ELSE /\ tasks' = updateTask(workReqs[s].id, workReqs[s].body)
            /\ workReqs' = [workReqs EXCEPT ![s].pc = "done", ![s].body = <<>>,
                                            ![s].status = 200]
    /\ UNCHANGED <<workReports, mails>>
    /\ WorkOthersUnchanged

\* POST /api/reports: `report = await storage.createWorkReport({userId, title, content})`
ReportCreateInsert(s) ==
    /\ workReqs[s].op = "createReport" /\ workReqs[s].pc = "run"
    /\ Len(workReports) < MaxReports
    /\ workReports' = createWorkReport(
          [userId |-> workReqs[s].user, title |-> workReqs[s].body.title,
           content |-> workReqs[s].body.content])
    /\ workReqs' = [workReqs EXCEPT ![s].id = Len(workReports) + 1, ![s].pc = "notify"]
    /\ UNCHANGED <<tasks, mails>>
    /\ WorkOthersUnchanged

\* POST /api/reports: `admins = await storage.getAdmins()`, sendReportSubmittedEmail
\* to each admin with an email (not awaited), 201
ReportCreateNotify(s) ==
    /\ workReqs[s].op = "createReport" /\ workReqs[s].pc = "notify"
    /\ mails' = SendMail("report_submitted", {users[a].email : a \in getAdmins})
    /\ workReqs' = [workReqs EXCEPT ![s].pc = "done", ![s].body = <<>>, ![s].status = 201]
    /\ UNCHANGED <<tasks, workReports>>
    /\ WorkOthersUnchanged

\* PATCH /api/reports/:id {status}: `await storage.updateWorkReportStatus(reportId,
\* status)`, 200 (an id without a row updates nothing)
ReportSetStatus(s) ==
    /\ workReqs[s].op = "setReportStatus" /\ workReqs[s].pc = "run"
    /\ workReports' = updateWorkReportStatus(workReqs[s].id, workReqs[s].body.status)
    /\ workReqs' = [workReqs EXCEPT ![s].pc = "done", ![s].body = <<>>, ![s].status = 200]
    /\ UNCHANGED <<tasks, mails>>
    /\ WorkOthersUnchanged

\* The staffed panel (see Staffed) after both staff members have clocked in on the
\* first day.
DayOneAttendance ==
    << [userId |-> 2, clockIn |-> 1, clockOut |-> Null, date |-> DateOf(1)],
       [userId |-> 3, clockIn |-> 1, clockOut |-> Null, date |-> DateOf(1)] >>

WorkStaffed ==
    /\ users = <<AdminRow, UserFromRequest(StaffRequests[1]),
                 UserFromRequest(StaffRequests[2])>>
    /\ session = <<1, 2, Null>>
    /\ roles = {}
    /\ nextRoleId = 1
    /\ accessRequests = StaffRequests
    /\ attendance = DayOneAttendance
    /\ now = 1
    /\ attReqs = <<>>
    /\ roleReqs = <<>>
    /\ accReqs = <<>>
    /\ workReqs = [s \in Slots |-> IdleWorkReq]
    /\ ChatEmpty /\ ClientEmpty /\ mails = NoMail

InitWork == WorkStaffed /\ tasks = <<>> /\ workReports = <<>>

\* ... and after the administrator has given the first staff member a task
FirstTask ==
    TaskFromBody([title |-> "Ship report", description |-> "", priority |-> "high",
                  assignedTo |-> 2, dueDate |-> Null], 1)

InitTasks == WorkStaffed /\ tasks = <<FirstTask>> /\ workReports = <<>>

\* Tasks: admin and staff patch the task.
NextTasks ==
    \/ \E s \in Slots, c \in Clients, id \in TaskIdInputs, body \in TaskPatchBodies :
          WorkStart(s, c, "patchTask", id, body)
    \/ \E s \in Slots : TaskPatchRead(s)
    \/ \E s \in Slots : TaskPatchUpdate(s)

SpecTasks == InitTasks /\ [][NextTasks]_vars

\* Work reports: anybody logged in submits them, an admin sets their status.
NextReports ==
    \/ \E s \in Slots, c \in Clients, body \in ReportCreateBodies :
          WorkStart(s, c, "createReport", Null, body)
    \/ \E s \in Slots, c \in Clients, id \in ReportIdInputs, body \in ReportStatusBodies :
          WorkStart(s, c, "setReportStatus", id, body)
    \/ \E s \in Slots : ReportCreateInsert(s)
    \/ \E s \in Slots : ReportCreateNotify(s)
    \/ \E s \in Slots : ReportSetStatus(s)

SpecReports == InitWork /\ [][NextReports]_vars

\* The list routes, while tasks and reports are being created.
NextLists ==
    \/ \E s \in Slots, c \in Clients, q \in TaskListQueries :
          WorkStart(s, c, "listTasks", Null, q)
    \/ \E s \in Slots, c \in Clients, op \in {"listAttendance", "listReports", "listRequests"} :
          WorkStart(s, c, op, Null, <<>>)
    \/ \E s \in Slots, c \in Clients, body \in TaskCreateBodies :
          WorkStart(s, c, "createTask", Null, body)
    \/ \E s \in Slots, c \in Clients, body \in ReportCreateBodies :
          WorkStart(s, c, "createReport", Null, body)
    \/ \E s \in Slots : TaskList(s)
    \/ \E s \in Slots : AttendanceList(s)
    \/ \E s \in Slots : ReportList(s)
    \/ \E s \in Slots : RequestList(s)
    \/ \E s \in Slots : TaskCreateInsert(s)
    \/ \E s \in Slots : TaskCreateNotify(s)
    \/ \E s \in Slots : ReportCreateInsert(s)
    \/ \E s \in Slots : ReportCreateNotify(s)

SpecLists == InitWork /\ [][NextLists]_vars

\* ------------------------------------------------------------------ email
\* What happens to one sendEmail call: EMAIL_PASSWORD is not set; transporter.sendMail
\* resolves; transporter.sendMail rejects.
MailOutcomes == {"unconfigured", "delivered", "smtp_error"}

\* a sendEmail without its try/catch: the rejection of sendMail leaves the function
sendEmail_NoCatch(outcome) ==
    IF outcome = "unconfigured" THEN "false"
    ELSE IF outcome = "delivered" THEN "true"
    ELSE "rejects"

\* sendEmail: what its promise settles to
sendEmail(outcome) ==
    IF outcome = "unconfigured" THEN "false"
    ELSE IF outcome = "delivered" THEN "true"
    ELSE "false"

\* The promise of a sendEmail call settles.  No handler awaits it: this happens at
\* any time after the call, also after the response.
MailSettle(m, outcome) ==
    /\ m \in mails.pending
    /\ mails' = [pending |-> mails.pending \ {m},
                 settled |-> [outcome |-> outcome, result |-> sendEmail(outcome)]]
    /\ UNCHANGED <<users, session, roles, nextRoleId, accessRequests, attendance, now,
                   attReqs, roleReqs, accReqs>>
    /\ WorkUnchanged /\ ChatUnchanged /\ ClientUnchanged

\* no request of any subsystem is in flight
Quiet(reqs) == \A s \in DOMAIN reqs : reqs[s].pc \in {"idle", "done"}
AllQuiet ==
    /\ Quiet(attReqs) /\ Quiet(roleReqs) /\ Quiet(accReqs) /\ Quiet(workReqs)
    /\ Quiet(chatReqs)

\* The state after start-up, after the administrator has approved the access request
\* of the first staff member, and the second one has asked for access: user 1
\* (admin) is logged in on client 1, user 2 (staff) on client 2, client 3 has no
\* session.
OpenRequests == <<StaffRequests[1], [StaffRequests[2] EXCEPT !.status = "pending"]>>

\* the request that is open at the start, and the task bodies that name an assignee
\* who is a user at the start
OpenRequestIds == {i \in DOMAIN OpenRequests : OpenRequests[i].status = "pending"}
AssigningBodies == {b \in TaskCreateBodies : b.assignedTo = 2}

InitMail ==
    /\ users = <<AdminRow, UserFromRequest(StaffRequests[1])>>
    /\ session = <<1, 2, Null>>
    /\ roles = {}
    /\ nextRoleId = 1
    /\ accessRequests = OpenRequests
    /\ attendance = <<>>
    /\ now = 1
    /\ attReqs = <<>>
    /\ roleReqs = <<>>
    /\ accReqs = [s \in Slots |-> IdleAccReq]
    /\ tasks = <<>>
    /\ workReports = <<>>
    /\ workReqs = [s \in Slots |-> IdleWorkReq]
    /\ ChatEmpty /\ ClientEmpty /\ mails = NoMail

\* The four operations that send a notification, one request at a time (each in
\* the first slot of its subsystem), and the notifications' promises settling in
\* between.
NextMail ==
    \/ \E c \in Clients, op \in {"approve", "reject"}, id \in OpenRequestIds :
          AllQuiet /\ DecideStart(1, c, op, id)
    \/ \E s \in Slots : ApproveRead(s)
    \/ \E s \in Slots : ApproveCreateUser(s)
    \/ \E s \in Slots : ApproveUpdateStatus(s)
    \/ \E s \in Slots : RejectRead(s)
    \/ \E s \in Slots : RejectUpdateStatus(s)
    \/ \E c \in Clients, body \in AssigningBodies :
          AllQuiet /\ WorkStart(1, c, "createTask", Null, body)
    \/ \E c \in Clients, body \in ReportCreateBodies :
          AllQuiet /\ WorkStart(1, c, "createReport", Null, body)
    \/ \E s \in Slots : TaskCreateInsert(s)
    \/ \E s \in Slots : TaskCreateNotify(s)
    \/ \E s \in Slots : ReportCreateInsert(s)
    \/ \E s \in Slots : ReportCreateNotify(s)
    \/ \E m \in mails.pending, outcome \in MailOutcomes : MailSettle(m, outcome)

SpecMail == InitMail /\ [][NextMail]_vars

\* ------------------------------------------------------------------ the admin-only routes
\* A request for one of the routes behind requireAdmin arrives from client c and
\* takes slot s of its subsystem: PATCH /api/users/:id/role, DELETE /api/roles/:id,
\* POST /api/roles, POST /api/access-requests/:id/approve and /reject,
\* GET /api/access-requests, POST /api/tasks, PATCH /api/reports/:id.  Each route
\* is asked with one input: the first staff member, the first role, the first
\* role name, the open request, the first report.
AdminArrives(s, c) ==
    \/ RoleStart(s, c, "assign", Null, 2, 1)
    \/ RoleStart(s, c, "delete", 1, Null, Null)
    \/ RoleCreate(s, c, "dev")
    \/ \E op \in {"approve", "reject"}, id \in OpenRequestIds : DecideStart(s, c, op, id)
    \/ WorkStart(s, c, "listRequests", Null, <<>>)
    \/ \E body \in AssigningBodies : WorkStart(s, c, "createTask", Null, body)
    \/ WorkStart(s, c, "setReportStatus", 1, [status |-> "reviewed"])

\* ... and the first staff member has submitted a work report
FirstReport ==
    [userId |-> 2, title |-> "Week 1", content |-> "done a, b", status |-> "pending"]

InitGate ==
    /\ users = <<AdminRow, UserFromRequest(StaffRequests[1])>>
    /\ session = <<1, 2, Null>>
    /\ roles = {}
    /\ nextRoleId = 1
    /\ accessRequests = OpenRequests
    /\ attendance = <<>>
    /\ now = 1
    /\ attReqs = <<>>
    /\ roleReqs = [s \in Slots |-> IdleRoleReq]
    /\ accReqs = [s \in Slots |-> IdleAccReq]
    /\ tasks = <<>>
    /\ workReports = <<FirstReport>>
    /\ workReqs = [s \in Slots |-> IdleWorkReq]
    /\ ChatEmpty /\ ClientEmpty /\ mails = NoMail

\* The admin-only routes, one request at a time (each in the first slot of its
\* subsystem), asked for by the admin, by a staff member and by a client without
\* a session.
NextGate ==
    \/ \E c \in Clients : AllQuiet /\ AdminArrives(1, c)
    \/ \E s \in Slots : RoleAssign(s)
    \/ \E s \in Slots : RoleDetach(s)
    \/ \E s \in Slots : RoleDeleteRow(s)
    \/ \E s \in Slots : ApproveRead(s)
    \/ \E s \in Slots : ApproveCreateUser(s)
    \/ \E s \in Slots : ApproveUpdateStatus(s)
    \/ \E s \in Slots : RejectRead(s)
    \/ \E s \in Slots : RejectUpdateStatus(s)
    \/ \E s \in Slots : RequestList(s)
    \/ \E s \in Slots : TaskCreateInsert(s)
    \/ \E s \in Slots : TaskCreateNotify(s)
    \/ \E s \in Slots : ReportSetStatus(s)

SpecGate == InitGate /\ [][NextGate]_vars

\* ------------------------------------------------------------------ chat, WebSocket connections
\* the messages table holds at most MaxMsgs rows; NumConns WebSocket connections
\* are made in a run
MaxMsgs == 2
NumConns == 2

Conns == DOMAIN conns
MessageIdInputs == 1..MaxMsgs

\* The bodies of POST /api/messages: {content, messageType} and the uploaded file
\* (its stored name, "" without a file)
MessageBodies ==
    { [content |-> "hello", messageType |-> "", file |-> ""],
      [content |-> "", messageType |-> "image", file |-> "1-1.png"] }

IdleChatReq ==
    [op |-> "none", pc |-> "idle", user |-> Null, id |-> Null, body |-> <<>>,
     result |-> <<>>, status |-> 0]

\* A connection before its handshake.  `last` is the last event the server's
\* handlers saw on it; `broken` says that a write to it has failed and the event
\* that reports the failure has not been delivered yet.
NewConn == [readyState |-> "CONNECTING", last |-> "none", broken |-> FALSE]

\* an error handler that only logs
onError_LogOnly(ws) == clients

\* ws.on("error"): clients.delete(ws)
onError(ws) == clients \ {ws}

\* a close handler that only logs
onClose_LogOnly(ws) == clients

\* ws.on("close"): clients.delete(ws)
onClose(ws) == clients \ {ws}

\* wss.on("connection"): clients.add(ws)
onConnection(ws) == clients \cup {ws}

\* a broadcast without the readyState test
IsOpen_Always(ws) == TRUE

\* broadcastMessage: `client.readyState === WebSocket.OPEN`
IsOpen(ws) == conns[ws].readyState = "OPEN"

\* broadcastMessage(type, data): clients.forEach visits each connection of the set
\* once and calls client.send(message) on the open ones.  The calls made, per
\* connection.
broadcastMessage(frame) ==
    [w \in Conns |-> IF w \in clients /\ IsOpen(w) THEN <<frame>> ELSE <<>>]

\* The connections a broadcast calls send() on
Written == {w \in clients : IsOpen(w)}

\* client.send(message) for the connections of `failing`: the write to the socket
\* fails.  send() has returned by then; the socket is torn down (readyState leaves
\* OPEN) and the failure comes back as an event on the connection.
sendFails(failing) ==
    [w \in Conns |->
        IF w \in failing
        THEN [conns[w] EXCEPT !.readyState = "CLOSING", !.broken = TRUE]
        ELSE conns[w]]

\* getMessage: the row with that id, or undefined
getMessage(id) == IF id \in DOMAIN messages THEN id ELSE Null

\* getAllMessages: every row, ORDER BY created_at.  Rows with equal created_at
\* come in any order: the orders the query can answer with, as sequences of ids.
getAllMessages(table) ==
    {order \in [DOMAIN table -> DOMAIN table] :
        /\ \A i, j \in DOMAIN table : i # j => order[i] # order[j]
        /\ \A i, j \in DOMAIN table :
              i < j => table[order[i]].createdAt <= table[order[j]].createdAt}

\* getUserWithRole(id) / `with: {role: true}`: every column of the users row, and
\* the row of its role (<<>> without one)
getUserWithRole(id) ==
    [id |-> id, username |-> users[id].username, password |-> users[id].password,
     email |-> users[id].email, name |-> users[id].name, isAdmin |-> users[id].isAdmin,
     roleId |-> users[id].roleId, isApproved |-> users[id].isApproved,
     role |-> IF \E r \in roles : r.id = users[id].roleId
              THEN CHOOSE r \in roles : r.id = users[id].roleId ELSE <<>>]

\* one element of getAllMessages' result: the row `with: {sender: {with: {role}}}`
MessageWithSender(id) ==
    [id |-> id, senderId |-> messages[id].senderId, content |-> messages[id].content,
     messageType |-> messages[id].messageType, mediaUrl |-> messages[id].mediaUrl,
     isDeleted |-> messages[id].isDeleted, createdAt |-> messages[id].createdAt,
     sender |-> getUserWithRole(messages[id].senderId)]

\* a createMessage whose INSERT is not carried out
createMessage_Dropped(message) == messages

\* createMessage: INSERT; is_deleted and created_at take the column defaults
createMessage(message) ==
    Append(messages, [senderId |-> message.senderId, content |-> message.content,
                      messageType |-> message.messageType, mediaUrl |-> message.mediaUrl,
                      isDeleted |-> FALSE, createdAt |-> now])

\* a deleteMessage that removes the content as well
deleteMessage_Scrub(id) ==
    [messages EXCEPT ![id].isDeleted = TRUE, ![id].content = ""]

\* deleteMessage: UPDATE messages SET is_deleted = true WHERE id = id
deleteMessage(id) == [messages EXCEPT ![id].isDeleted = TRUE]

ChatOthersUnchanged ==
    /\ UNCHANGED <<users, session, roles, nextRoleId, accessRequests, attendance,
                   now, attReqs, roleReqs, accReqs, mails>>
    /\ WorkUnchanged /\ ClientUnchanged

\* what send() has written in a step that makes no broadcast
NothingSent == [w \in Conns |-> <<>>]

\* a WebSocket handshake completes: wss emits "connection" with the open socket
WsConnect(w) ==
    /\ conns[w].readyState = "CONNECTING"
    /\ conns' = [conns EXCEPT ![w].readyState = "OPEN", ![w].last = "connection"]
    /\ clients' = onConnection(w)
    /\ sent' = NothingSent
    /\ UNCHANGED <<messages, chatReqs>>
    /\ ChatOthersUnchanged

\* the closing handshake starts (either side): readyState leaves OPEN, no event
\* reaches the handlers of routes.ts yet
WsStartClosing(w) ==
    /\ conns[w].readyState = "OPEN"
    /\ conns' = [conns EXCEPT ![w].readyState = "CLOSING"]
    /\ sent' = NothingSent
    /\ UNCHANGED <<messages, clients, chatReqs>>
    /\ ChatOthersUnchanged

\* the connection emits "error"
WsError(w) ==
    /\ conns[w].readyState \in {"OPEN", "CLOSING"}
    /\ conns[w].last = "connection"
    /\ conns' = [conns EXCEPT ![w].readyState = "CLOSING", ![w].last = "error",
                              ![w].broken = FALSE]
    /\ clients' = onError(w)
    /\ sent' = NothingSent
    /\ UNCHANGED <<messages, chatReqs>>
    /\ ChatOthersUnchanged

\* the connection emits "close"
WsClose(w) ==
    /\ conns[w].readyState \in {"OPEN", "CLOSING"}
    /\ conns' = [conns EXCEPT ![w].readyState = "CLOSED", ![w].last = "close",
                              ![w].broken = FALSE]
    /\ clients' = onClose(w)
    /\ sent' = NothingSent
    /\ UNCHANGED <<messages, chatReqs>>
    /\ ChatOthersUnchanged

\* the event that reports a failed write is delivered
WsDrop(w) == conns[w].broken /\ (WsError(w) \/ WsClose(w))

\* a chat request arrives: requireAuth
ChatStart(s, c, op, id, body) ==
    /\ chatReqs[s].pc \in {"idle", "done"}
    /\ chatReqs' = [chatReqs EXCEPT ![s] =
          IF ~requireAuth(c)
          THEN [IdleChatReq EXCEPT !.op = op, !.pc = "done", !.status = 401]
          ELSE [IdleChatReq EXCEPT !.op = op, !.pc = "run", !.user = session[c],
                                   !.id = id, !.body = body]]
    /\ sent' = NothingSent
    /\ UNCHANGED <<messages, clients, conns>>
    /\ ChatOthersUnchanged

\* GET /api/messages: await storage.getAllMessages(); res.json(messages)
MessageList(s) ==
    /\ chatReqs[s].op = "listMessages" /\ chatReqs[s].pc = "run"
    /\ \E order \in getAllMessages(messages) :
          chatReqs' = [chatReqs EXCEPT ![s].pc = "done", ![s].status = 200,
                ![s].result = [i \in DOMAIN order |-> MessageWithSender(order[i])]]
    /\ sent' = NothingSent
    /\ UNCHANGED <<messages, clients, conns>>
    /\ ChatOthersUnchanged

\* the row POST /api/messages inserts
MessageFromBody(body, senderId) ==
    [senderId |-> senderId,
     content |-> body.content,
     messageType |-> IF body.messageType = "" THEN "text" ELSE body.messageType,
     mediaUrl |-> IF body.file = "" THEN "" ELSE "/uploads/" \o body.file]

\* POST /api/messages: await storage.createMessage(...)
MessageCreateInsert(s) ==
    /\ chatReqs[s].op = "createMessage" /\ chatReqs[s].pc = "run"
    /\ Len(messages) < MaxMsgs
    /\ messages' = createMessage(MessageFromBody(chatReqs[s].body, chatReqs[s].user))
    /\ chatReqs' = [chatReqs EXCEPT ![s].pc = "broadcast", ![s].id = Len(messages) + 1,
                                    ![s].body = <<>>]
    /\ sent' = NothingSent
    /\ UNCHANGED <<clients, conns>>
    /\ ChatOthersUnchanged

\* POST /api/messages: broadcastMessage("new_message", message); 201.  The writes
\* to the connections of `failing` fail.
MessageCreateBroadcast(s, failing) ==
    /\ chatReqs[s].op = "createMessage" /\ chatReqs[s].pc = "broadcast"
    /\ failing \subseteq Written
    /\ sent' = broadcastMessage([type |-> "new_message", data |-> chatReqs[s].id])
    /\ conns' = sendFails(failing)
    /\ chatReqs' = [chatReqs EXCEPT ![s].pc = "done", ![s].status = 201]
    /\ UNCHANGED <<messages, clients>>
    /\ ChatOthersUnchanged

\* DELETE /api/messages/:id: the sender and an admin may delete
MessageDeleteForbidden(message, userId) ==
    message.senderId # userId /\ ~users[userId].isAdmin

\* DELETE /api/messages/:id: await storage.getMessage(messageId); 404, 403
MessageDeleteRead(s) ==
    /\ chatReqs[s].op = "deleteMessage" /\ chatReqs[s].pc = "run"
    /\ chatReqs' = [chatReqs EXCEPT ![s] =
          IF getMessage(chatReqs[s].id) = Null
          THEN [@ EXCEPT !.pc = "done", !.status = 404]
          ELSE IF MessageDeleteForbidden(messages[chatReqs[s].id], chatReqs[s].user)
          THEN [@ EXCEPT !.pc = "done", !.status = 403]
          ELSE [@ EXCEPT !.pc = "update"]]
    /\ sent' = NothingSent
    /\ UNCHANGED <<messages, clients, conns>>
    /\ ChatOthersUnchanged

\* DELETE /api/messages/:id: await storage.deleteMessage(messageId)
MessageDeleteUpdate(s) ==
    /\ chatReqs[s].op = "deleteMessage" /\ chatReqs[s].pc = "update"
    /\ messages' = deleteMessage(chatReqs[s].id)
    /\ chatReqs' = [chatReqs EXCEPT ![s].pc = "broadcast"]
    /\ sent' = NothingSent
    /\ UNCHANGED <<clients, conns>>
    /\ ChatOthersUnchanged

\* DELETE /api/messages/:id: broadcastMessage("delete_message", {id}); 200
MessageDeleteBroadcast(s, failing) ==
    /\ chatReqs[s].op = "deleteMessage" /\ chatReqs[s].pc = "broadcast"
    /\ failing \subseteq Written
    /\ sent' = broadcastMessage([type |-> "delete_message", data |-> chatReqs[s].id])
    /\ conns' = sendFails(failing)
    /\ chatReqs' = [chatReqs EXCEPT ![s].pc = "done", ![s].status = 200]
    /\ UNCHANGED <<messages, clients>>
    /\ ChatOthersUnchanged

\* The chat tick: the clock advances between requests
ChatTick ==
    /\ now < MaxTime
    /\ now' = now + 1
    /\ sent' = NothingSent
    /\ UNCHANGED <<users, session, roles, nextRoleId, accessRequests, attendance,
                   attReqs, roleReqs, accReqs, mails, messages, clients, conns, chatReqs>>
    /\ WorkUnchanged /\ ClientUnchanged

\* Admin and one staff member are logged in, client 3 has no session; nobody is
\* connected and the chat is empty.
InitChat ==
    /\ users = <<AdminRow, UserFromRequest(StaffRequests[1]),
                 UserFromRequest(StaffRequests[2])>>
    /\ session = <<1, 2, Null>>
    /\ roles = {} /\ nextRoleId = 1
    /\ accessRequests = StaffRequests
    /\ attendance = <<>>
    /\ now = 1
    /\ attReqs = <<>> /\ roleReqs = <<>> /\ accReqs = <<>>
    /\ WorkEmpty
    /\ messages = <<>> /\ clients = {}
    /\ conns = [w \in 1..NumConns |-> NewConn]
    /\ sent = [w \in 1..NumConns |-> <<>>]
    /\ chatReqs = [s \in Slots |-> IdleChatReq]
    /\ ClientEmpty /\ mails = NoMail

\* Messages: requests on every slot, the clock runs, no connections are made
NextMessages ==
    \/ \E s \in Slots, c \in Clients :
          \/ ChatStart(s, c, "createMessage", Null, CHOOSE b \in MessageBodies : b.file = "")
          \/ \E id \in MessageIdInputs : ChatStart(s, c, "deleteMessage", id, <<>>)
          \/ ChatStart(s, c, "listMessages", Null, <<>>)
    \/ \E s \in Slots :
          \/ MessageList(s) \/ MessageCreateInsert(s) \/ MessageCreateBroadcast(s, {})
          \/ MessageDeleteRead(s) \/ MessageDeleteUpdate(s) \/ MessageDeleteBroadcast(s, {})
    \/ ChatTick

SpecMessages == InitChat /\ [][NextMessages]_vars

\* Chat with live connections: one request at a time, connections come and go

NextChat ==
    \/ \E c \in Clients :
          \/ \E b \in MessageBodies : ChatStart(1, c, "createMessage", Null, b)
          \/ \E id \in MessageIdInputs : ChatStart(1, c, "deleteMessage", id, <<>>)
    \/ MessageCreateInsert(1) \/ MessageDeleteRead(1) \/ MessageDeleteUpdate(1)
    \/ \E failing \in SUBSET Conns :
          MessageCreateBroadcast(1, failing) \/ MessageDeleteBroadcast(1, failing)
    \/ \E w \in Conns : WsConnect(w) \/ WsStartClosing(w) \/ WsError(w) \/ WsClose(w)

SpecChat == InitChat /\ [][NextChat]_vars /\ \A w \in 1..NumConns : WF_vars(WsDrop(w))

\* ------------------------------------------------------------------ comparePasswords on stored strings
\* stored password strings are at most MaxStored characters long
MaxStored == 4
\* scrypt's keylen: the digest has KeyLen bytes (64 in auth.ts, scaled down)
KeyLen == 1

\* the characters of a stored string: two hex digits, a letter that is no hex
\* digit, and the separator
HexDigits == {"a", "b"}
Chars == HexDigits \cup {"z", "."}

StoredInputs == UNION {[1..n -> Chars] : n \in 0..MaxStored}
SuppliedInputs == {"pw1", "pw2"}

\* the position of the first '.' in str, 0 if there is none
FirstDot(str) ==
    IF \E i \in DOMAIN str : str[i] = "."
    THEN CHOOSE i \in DOMAIN str : str[i] = "." /\ \A j \in 1..(i - 1) : str[j] # "."
    ELSE 0

\* str up to its first '.', all of it without one
UpToDot(str) == IF FirstDot(str) = 0 THEN str ELSE SubSeq(str, 1, FirstDot(str) - 1)

\* `const [hashed, salt] = stored.split(".")`: the first two parts; without a '.'
\* the array has one element and salt is undefined
SplitStored(stored) ==
    [hashed |-> UpToDot(stored),
     saltDefined |-> FirstDot(stored) # 0,
     salt |-> IF FirstDot(stored) = 0 THEN <<>>
              ELSE UpToDot(SubSeq(stored, FirstDot(stored) + 1, Len(stored)))]

\* Buffer.from(str, "hex"): one byte per pair of hex digits, up to the first pair
\* that is not one
RECURSIVE BufferFromHex(_)
BufferFromHex(str) ==
    IF Len(str) >= 2 /\ str[1] \in HexDigits /\ str[2] \in HexDigits
    THEN <<SubSeq(str, 1, 2)>> \o BufferFromHex(SubSeq(str, 3, Len(str)))
    ELSE <<>>

\* scrypt(password, salt, keylen): a digest of keylen bytes that is a function of
\* the password and the salt
ScryptBytes(password, salt) ==
    [i \in 1..KeyLen |->
        << IF password = "pw1" THEN "a" ELSE "b",
           IF Len(salt) % 2 = 0 THEN "a" ELSE "b" >>]

\* crypto.timingSafeEqual(a, b): throws a RangeError unless the buffers have the
\* same byte length
timingSafeEqual(a, b) ==
    IF Len(a) # Len(b) THEN "throws" ELSE IF a = b THEN "true" ELSE "false"

\* comparePasswords(supplied, stored), by how the call ends: "true", "false" or
\* "throws" (the promise rejects).  scrypt throws a TypeError for an undefined salt.
comparePasswordsOutcome(supplied, stored) ==
    IF ~SplitStored(stored).saltDefined THEN "throws"
    ELSE timingSafeEqual(BufferFromHex(SplitStored(stored).hashed),
                         ScryptBytes(supplied, SplitStored(stored).salt))

\* comparePasswords is called and settles
ComparePasswords ==
    /\ pwCheck.outcome = "none"
    /\ pwCheck' = [pwCheck EXCEPT !.outcome =
                      comparePasswordsOutcome(pwCheck.supplied, pwCheck.stored)]
    /\ UNCHANGED <<users, session, roles, nextRoleId, accessRequests, attendance, now,
                   attReqs, roleReqs, accReqs, mails, userReqs, page, socks>>
    /\ WorkUnchanged /\ ChatUnchanged

\* a call with any supplied password and any stored string
InitCompare ==
    /\ pwCheck \in [supplied : SuppliedInputs, stored : StoredInputs, outcome : {"none"}]
    /\ users = <<>> /\ session = <<>> /\ roles = {} /\ nextRoleId = 1
    /\ accessRequests = <<>> /\ attendance = <<>> /\ now = 1
    /\ attReqs = <<>> /\ roleReqs = <<>> /\ accReqs = <<>>
    /\ WorkEmpty /\ ChatEmpty /\ mails = NoMail
    /\ userReqs = <<>> /\ page = <<>> /\ socks = <<>>

NextCompare == ComparePasswords

SpecCompare == InitCompare /\ [][NextCompare]_vars

\* ------------------------------------------------------------------ routes that answer with users
\* what PATCH /api/user/profile is sent with
ProfileBodies == { [name |-> "Alice B", email |-> "ab@x.org"] }

IdleUserReq ==
    [op |-> "none", pc |-> "idle", user |-> Null, body |-> <<>>, result |-> <<>>,
     status |-> 0]

\* `({ password, ...user }) => user`: the object without its password property
WithoutPassword(user) == [f \in DOMAIN user \ {"password"} |-> user[f]]

\* getAllUsers: every row with its role, ORDER BY id DESC
getAllUsers == [i \in 1..Len(users) |-> getUserWithRole(Len(users) + 1 - i)]

\* updateUser(id, data): UPDATE users SET name, email WHERE id
updateUser(id, data) ==
    [users EXCEPT ![id].name = data.name, ![id].email = data.email]

UserOthersUnchanged ==
    /\ UNCHANGED <<session, roles, nextRoleId, accessRequests, attendance, now,
                   attReqs, roleReqs, accReqs, mails, pwCheck, page, socks>>
    /\ WorkUnchanged /\ ChatUnchanged

\* a request of client c arrives: requireAuth (GET /api/user tests
\* req.isAuthenticated() itself), 401
UserStart(s, c, op, body) ==
    /\ userReqs[s].pc \in {"idle", "done"}
    /\ userReqs' = [userReqs EXCEPT ![s] =
          IF ~requireAuth(c)
          THEN [IdleUserReq EXCEPT !.op = op, !.pc = "done", !.status = 401]
          ELSE [IdleUserReq EXCEPT !.op = op, !.pc = "run", !.user = session[c],
                                   !.body = body]]
    /\ UNCHANGED users
    /\ UserOthersUnchanged

\* GET /api/users: getAllUsers, `users.map(({ password, ...user }) => user)`
UsersList(s) ==
    /\ userReqs[s].op = "listUsers" /\ userReqs[s].pc = "run"
    /\ userReqs' = [userReqs EXCEPT ![s].pc = "done", ![s].status = 200,
          ![s].result = [i \in DOMAIN getAllUsers |-> WithoutPassword(getAllUsers[i])]]
    /\ UNCHANGED users
    /\ UserOthersUnchanged

\* GET /api/user: res.json(await storage.getUserWithRole(req.user.id))
CurrentUser(s) ==
    /\ userReqs[s].op = "currentUser" /\ userReqs[s].pc = "run"
    /\ userReqs' = [userReqs EXCEPT ![s].pc = "done", ![s].status = 200,
                                    ![s].result = <<getUserWithRole(userReqs[s].user)>>]
    /\ UNCHANGED users
    /\ UserOthersUnchanged

\* PATCH /api/user/profile: await storage.updateUser(userId, updateData)
ProfileUpdate(s) ==
    /\ userReqs[s].op = "updateProfile" /\ userReqs[s].pc = "run"
    /\ users' = updateUser(userReqs[s].user, userReqs[s].body)
    /\ userReqs' = [userReqs EXCEPT ![s].pc = "read", ![s].body = <<>>]
    /\ UserOthersUnchanged

\* PATCH /api/user/profile: res.json(await storage.getUserWithRole(userId))
ProfileRead(s) ==
    /\ userReqs[s].op = "updateProfile" /\ userReqs[s].pc = "read"
    /\ userReqs' = [userReqs EXCEPT ![s].pc = "done", ![s].status = 200,
                                    ![s].result = <<getUserWithRole(userReqs[s].user)>>]
    /\ UNCHANGED users
    /\ UserOthersUnchanged

\* The chat after the first staff member has written a message
FirstMessage ==
    [senderId |-> 2, content |-> "hello", messageType |-> "text", mediaUrl |-> "",
     isDeleted |-> FALSE, createdAt |-> 1]

InitBodies ==
    /\ users = <<AdminRow, UserFromRequest(StaffRequests[1])>>
    /\ session = <<1, 2, Null>>
    /\ roles = {} /\ nextRoleId = 1
    /\ accessRequests = <<StaffRequests[1]>>
    /\ attendance = <<>>
    /\ now = 1
    /\ attReqs = <<>> /\ roleReqs = <<>> /\ accReqs = <<>>
    /\ WorkEmpty
    /\ messages = <<FirstMessage>> /\ clients = {} /\ conns = <<>> /\ sent = <<>>
    /\ chatReqs = [s \in Slots |-> IdleChatReq]
    /\ mails = NoMail
    /\ pwCheck = <<>> /\ page = <<>> /\ socks = <<>>
    /\ userReqs = [s \in Slots |-> IdleUserReq]

NextBodies ==
    \/ \E s \in Slots, c \in Clients :
          \/ UserStart(s, c, "listUsers", <<>>)
          \/ UserStart(s, c, "currentUser", <<>>)
          \/ \E body \in ProfileBodies : UserStart(s, c, "updateProfile", body)
          \/ ChatStart(s, c, "listMessages", Null, <<>>)
    \/ \E s \in Slots :
          \/ UsersList(s) \/ CurrentUser(s) \/ ProfileUpdate(s) \/ ProfileRead(s)
          \/ MessageList(s)

SpecBodies == InitBodies /\ [][NextBodies]_vars

\* ------------------------------------------------------------------ the chat page (browser)
\* the client (session) whose browser shows the chat page
PageClient == 2
\* the request slot the page's GET /api/messages travels in
PollSlot == 2

\* the chat page before it is first mounted: no socket in wsRef, the query has no
\* data (`messages = []`)
NewPage == [mounted |-> FALSE, wsRef |-> Null, data |-> <<>>, loaded |-> FALSE]

\* socks[w] is the socket of connection w as the browser sees it and conns[w] is
\* the same connection as the server sees it.  A reconnect takes the place of the
\* closed socket it replaces, so w names a socket together with its successors.
\* Before `new WebSocket` has created it:
NewSock == [state |-> "unused", timer |-> FALSE, reconnected |-> FALSE]

\* the sockets the browser holds: created and not closed
LiveSocks == {w \in DOMAIN socks : socks[w].state \in {"CONNECTING", "OPEN"}}

\* connect(): `new WebSocket(wsUrl)` creates socket w and wsRef.current = socket
connect(w) == [socks EXCEPT ![w].state = "CONNECTING"]

\* an onclose handler that only logs
onclose_LogOnly(w) == [socks EXCEPT ![w].state = "CLOSED"]

\* socket.onclose: setTimeout(connect, 3000)
onclose(w) == [socks EXCEPT ![w].state = "CLOSED", ![w].timer = TRUE]

\* the effect's cleanup, wsRef.current?.close(): the socket in wsRef starts closing
\* unless it is closing or closed already
cleanup ==
    IF page.wsRef # Null /\ socks[page.wsRef].state \in {"CONNECTING", "OPEN"}
    THEN [socks EXCEPT ![page.wsRef].state = "CLOSING"]
    ELSE socks

\* a query that is fetched once, when the page is first shown
RefetchDue_OnLoadOnly == page.mounted /\ ~page.loaded

\* useQuery with refetchInterval: 5000: the mounted page fetches again and again
RefetchDue == page.mounted

PageOthersUnchanged ==
    /\ UNCHANGED <<users, session, roles, nextRoleId, accessRequests, attendance, now,
                   attReqs, roleReqs, accReqs, mails, pwCheck, userReqs>>
    /\ WorkUnchanged

\* the chat page is mounted: the effect runs connect()
PageMount(w) ==
    /\ ~page.mounted
    /\ socks[w].state = "unused"
    /\ page' = [page EXCEPT !.mounted = TRUE, !.wsRef = w]
    /\ socks' = connect(w)
    /\ sent' = NothingSent
    /\ UNCHANGED <<messages, clients, conns, chatReqs>>
    /\ PageOthersUnchanged

\* the chat page is unmounted: the effect's cleanup runs
PageUnmount ==
    /\ page.mounted
    /\ page' = [page EXCEPT !.mounted = FALSE]
    /\ socks' = cleanup
    /\ sent' = NothingSent
    /\ UNCHANGED <<messages, clients, conns, chatReqs>>
    /\ PageOthersUnchanged

\* the server accepts the handshake of socket w: its "connection" event
SockAccepted(w) ==
    /\ socks[w].state \in {"CONNECTING", "CLOSING"}
    /\ WsConnect(w)

\* the browser completes the handshake: socket.onopen (logs)
SockOpen(w) ==
    /\ socks[w].state = "CONNECTING"
    /\ conns[w].last = "connection" /\ conns[w].readyState = "OPEN"
    /\ socks' = [socks EXCEPT ![w].state = "OPEN"]
    /\ sent' = NothingSent
    /\ UNCHANGED <<page, messages, clients, conns, chatReqs>>
    /\ PageOthersUnchanged

\* The connection of socket w ends at the server (its "error" or "close" event):
\* the browser has closed it, the server drops it or the network fails.
SockDropped(w) ==
    /\ socks[w].state # "unused"
    /\ WsClose(w) \/ WsError(w)

\* the close that follows an "error" at the server
SockErrorCloses(w) == conns[w].readyState = "CLOSING" /\ WsClose(w)

\* the browser's close event of socket w, once the connection is over at the
\* server or was given up before the server saw it: socket.onclose
SockClosed(w) ==
    /\ socks[w].state \in {"CONNECTING", "OPEN", "CLOSING"}
    /\ \/ conns[w].readyState = "CLOSED"
       \/ conns[w].readyState = "CONNECTING" /\ socks[w].state = "CLOSING"
    /\ socks' = onclose(w)
    /\ sent' = NothingSent
    /\ UNCHANGED <<page, messages, clients, conns, chatReqs>>
    /\ PageOthersUnchanged

\* the reconnect timer set by socket w's onclose fires: connect() creates the
\* socket that replaces w, a connection the server has not seen yet
TimerFires(w) ==
    /\ socks[w].timer
    /\ socks' = [connect(w) EXCEPT ![w].timer = FALSE, ![w].reconnected = TRUE]
    /\ conns' = [conns EXCEPT ![w] = NewConn]
    /\ sent' = NothingSent
    /\ UNCHANGED <<page, messages, clients, chatReqs>>
    /\ PageOthersUnchanged

\* the messages query fetches, one request at a time: GET /api/messages is sent
\* with the session cookie
PagePoll ==
    /\ RefetchDue
    /\ chatReqs[PollSlot].pc = "idle"
    /\ ChatStart(PollSlot, PageClient, "listMessages", Null, <<>>)

\* the response arrives: its body becomes the query's data
PageReceive ==
    /\ chatReqs[PollSlot].op = "listMessages" /\ chatReqs[PollSlot].pc = "done"
    /\ page' = IF chatReqs[PollSlot].status = 200
               THEN [page EXCEPT !.data = chatReqs[PollSlot].result, !.loaded = TRUE]
               ELSE page
    /\ chatReqs' = [chatReqs EXCEPT ![PollSlot] = IdleChatReq]
    /\ sent' = NothingSent
    /\ UNCHANGED <<socks, messages, clients, conns>>
    /\ PageOthersUnchanged

\* The connections of the chat page: the page is mounted and unmounted, its
\* sockets connect, are dropped and reconnect.  The server accepts a handshake,
\* a close event that is due is delivered and a timer that is due fires.
PageServer ==
    /\ users = <<AdminRow, UserFromRequest(StaffRequests[1]),
                 UserFromRequest(StaffRequests[2])>>
    /\ session = <<1, 2, Null>>
    /\ roles = {} /\ nextRoleId = 1
    /\ accessRequests = StaffRequests
    /\ attendance = <<>>
    /\ now = 1
    /\ attReqs = <<>> /\ roleReqs = <<>> /\ accReqs = <<>>
    /\ WorkEmpty
    /\ messages = <<>> /\ clients = {}
    /\ conns = [w \in 1..NumConns |-> NewConn]
    /\ sent = [w \in 1..NumConns |-> <<>>]
    /\ chatReqs = [s \in Slots |-> IdleChatReq]
    /\ pwCheck = <<>> /\ userReqs = <<>> /\ mails = NoMail

InitPage ==
    /\ PageServer
    /\ page = NewPage
    /\ socks = [w \in 1..NumConns |-> NewSock]

NextPage ==
    \/ \E w \in DOMAIN socks : PageMount(w)
    \/ PageUnmount
    \/ \E w \in DOMAIN socks :
          SockAccepted(w) \/ SockOpen(w) \/ SockDropped(w) \/ SockClosed(w)
    \/ \E w \in DOMAIN socks : TimerFires(w)

SpecPage ==
    /\ InitPage /\ [][NextPage]_vars
    /\ \A w \in 1..NumConns :
          /\ WF_vars(SockAccepted(w)) /\ WF_vars(SockErrorCloses(w))
          /\ WF_vars(SockClosed(w)) /\ WF_vars(TimerFires(w))

\* The polling of the chat page: the page is mounted, its socket never gets
\* through to the server, messages are created and deleted on slot 1 and the
\* query polls on its own slot.  A due poll is sent, served and received.
InitPoll ==
    /\ PageServer
    /\ page = [NewPage EXCEPT !.mounted = TRUE, !.wsRef = 1]
    /\ socks = [[w \in 1..NumConns |-> NewSock] EXCEPT ![1].state = "CONNECTING"]

NextPoll ==
    \/ \E c \in Clients :
          \/ ChatStart(1, c, "createMessage", Null, CHOOSE b \in MessageBodies : b.file = "")
          \/ \E id \in MessageIdInputs : ChatStart(1, c, "deleteMessage", id, <<>>)
    \/ MessageCreateInsert(1) \/ MessageDeleteRead(1) \/ MessageDeleteUpdate(1)
    \/ \E failing \in SUBSET Conns :
          MessageCreateBroadcast(1, failing) \/ MessageDeleteBroadcast(1, failing)
    \/ PagePoll
    \/ MessageList(PollSlot)
    \/ PageReceive

SpecPoll ==
    /\ InitPoll /\ [][NextPoll]_vars
    /\ WF_vars(PagePoll) /\ WF_vars(MessageList(PollSlot)) /\ WF_vars(PageReceive)

\* ------------------------------------------------------------------ claims: attendance
DoneClockIn(s) == attReqs[s].pc = "done" /\ attReqs[s].op = "clockin"

\* C1: of two clock-in requests of one user for one date whose reads and inserts
\* interleave, exactly one is answered 201 and the other 400.  Two finished
\* requests of which one read "no record" cover the case: either the other one
\* read the first one's row (400), or both read before either insert.
ConcurrentClockInExactlyOne ==
    \A s1, s2 \in Slots :
        ( /\ s1 # s2
          /\ DoneClockIn(s1) /\ DoneClockIn(s2)
          /\ attReqs[s1].status \in {201, 400} /\ attReqs[s2].status \in {201, 400}
          /\ attReqs[s1].user = attReqs[s2].user
          /\ attReqs[s1].today = attReqs[s2].today
          /\ attReqs[s1].existing = Null )
        => /\ attReqs[s1].status = 201
           /\ attReqs[s2].status = 400

\* C2: the attendance table never holds two rows for one (userId, date).
AtMostOneRecordPerUserDate ==
    \A i, j \in DOMAIN attendance :
        (attendance[i].userId = attendance[j].userId
            /\ attendance[i].date = attendance[j].date) => i = j

\* C3: a row is never removed, changes only by having its null clockOut set, and
\* once its clockOut is set it never changes again.
ClockedOutIsTerminal ==
    [][\A i \in DOMAIN attendance :
          /\ i \in DOMAIN attendance'
          /\ \/ attendance'[i] = attendance[i]
             \/ /\ attendance[i].clockOut = Null
                /\ attendance'[i].clockOut # Null
                /\ attendance'[i] = [attendance[i] EXCEPT !.clockOut = attendance'[i].clockOut]
      ]_vars

\* C4: with one request at a time, a clock-in when the user already has a row for
\* the date, a clock-out when the user has no row for the date, and a clock-out
\* when the user's row for the date has its clockOut set are each answered 400;
\* a request answered 400 leaves the attendance table as it was.
SequentialConflictsRejected ==
    [][\A s \in Slots :
          (attReqs[s].pc = "read" /\ attReqs'[s].pc # "read") =>
             LET r == attReqs[s]
                 rows == TodayRows(r.user, r.today)
                 conflict ==
                    \/ r.op = "clockin" /\ rows # {}
                    \/ r.op = "clockout" /\ rows = {}
                    \/ r.op = "clockout" /\ \E i \in rows : attendance[i].clockOut # Null
             IN /\ conflict => (attReqs'[s].pc = "done" /\ attReqs'[s].status = 400)
                /\ attReqs'[s].status = 400 => attendance' = attendance
      ]_vars

\* C4 witness: a second clock-in and a second clock-out have both been answered 400.
SequentialConflictsSeen ==
    \E s1, s2 \in Slots :
        /\ DoneClockIn(s1) /\ attReqs[s1].status = 400
        /\ attReqs[s2].pc = "done" /\ attReqs[s2].op = "clockout"
        /\ attReqs[s2].status = 400 /\ attReqs[s2].existing # Null
        /\ attendance[attReqs[s2].existing].clockOut # Null

\* ------------------------------------------------------------------ claims: roles
RoleExists(id) == \E r \in roles : r.id = id

\* C5: every user's roleId is null or the id of an existing role.
NoDanglingRoleReference ==
    \A u \in DOMAIN users : users[u].roleId = Null \/ RoleExists(users[u].roleId)

\* C6: with no other request in flight, DELETE /api/roles/:id sets the roleId of
\* every user that holds the role to null and leaves every other user's roleId as
\* it is (first statement), and when it completes no user references the role, the
\* role row is gone, and the users are as the first statement left them.
DeleteRoleDetachesAll ==
    [][\A s \in Slots :
          LET id == roleReqs[s].id IN
          /\ (roleReqs[s].pc = "detach" /\ roleReqs'[s].pc = "delete") =>
                /\ DOMAIN users' = DOMAIN users
                /\ \A u \in DOMAIN users :
                      users'[u].roleId = IF users[u].roleId = id THEN Null
                                         ELSE users[u].roleId
                /\ roles' = roles
          /\ (roleReqs[s].pc = "delete" /\ roleReqs'[s].pc = "done") =>
                /\ roleReqs'[s].status = 200
                /\ users' = users
                /\ \A u \in DOMAIN users' : users'[u].roleId # id
                /\ ~ \E r \in roles' : r.id = id
      ]_vars

\* C6 witness: a delete has completed for a role that two users held, while the
\* third user holds another role.
DeleteRoleOfTwoUsersDone ==
    \E s \in Slots :
        /\ roleReqs[s].op = "delete" /\ roleReqs[s].pc = "done" /\ roleReqs[s].status = 200
        /\ roleReqs[s].detached = 2
        /\ \E u \in DOMAIN users : users[u].roleId \notin {Null, roleReqs[s].id}
        /\ ~RoleExists(roleReqs[s].id)

\* ------------------------------------------------------------------ claims: access requests
UserNamed(table, username) == \E u \in DOMAIN table : table[u].username = username
RequestNamed(username) ==
    \E i \in DOMAIN accessRequests : accessRequests[i].username = username
PendingRequestNamed(username) ==
    \E i \in DOMAIN accessRequests :
        accessRequests[i].username = username /\ accessRequests[i].status = "pending"

\* s takes a step of its handler
Steps(s) == accReqs[s].pc \notin {"idle", "done"} /\ accReqs'[s].pc # accReqs[s].pc

Completes(s) == Steps(s) /\ accReqs'[s].pc = "done"

\* C7: an approve request that finds the access request already approved is
\* answered 400, creates no user and leaves the request approved.
ApprovedTwiceRejected ==
    [][\A s \in Slots :
          ( /\ accReqs[s].op = "approve" /\ accReqs[s].pc = "read" /\ Steps(s)
            /\ accReqs[s].id \in DOMAIN accessRequests
            /\ accessRequests[accReqs[s].id].status = "approved" )
          => /\ accReqs'[s].pc = "done"
             /\ accReqs'[s].status = 400
             /\ users' = users
             /\ accessRequests' = accessRequests
      ]_vars

\* C7 witness: an approve request was answered 400 on a request it found approved.
ApprovedTwiceSeen ==
    \E s \in Slots :
        /\ accReqs[s].op = "approve" /\ accReqs[s].pc = "done" /\ accReqs[s].status = 400
        /\ accReqs[s].request.status = "approved"
        /\ accessRequests[accReqs[s].id].status = "approved"

ApprovalCreatesLoginableUser ==
    [][\A s \in Slots :
          (accReqs[s].op = "approve" /\ Steps(s)) =>
             LET row == accessRequests[accReqs[s].id]
                 new == users'[Len(users')]
             IN /\ (accReqs[s].pc = "createUser" /\ accReqs'[s].pc = "updateStatus") =>
                      /\ Len(users') = Len(users) + 1
                      /\ \A u \in DOMAIN users : users'[u] = users[u]
                      /\ new.username = row.username /\ new.email = row.email
                      /\ new.name = row.name /\ new.password = row.password
                      /\ ~new.isAdmin /\ new.isApproved
                /\ (accReqs'[s].pc = "done" /\ accReqs'[s].status = 200) =>
                      /\ accReqs[s].pc = "updateStatus"
                      /\ accessRequests'[accReqs[s].id].status = "approved"
                      /\ Cardinality({u \in DOMAIN users' :
                                         users'[u].username = row.username}) = 1
                      /\ \A p \in LoginPasswords :
                            comparePasswords(p, row.password) =>
                               /\ Verify(users', row.username, p) # Null
                               /\ users'[Verify(users', row.username, p)].username
                                     = row.username
      ]_vars

\* C9 witness: an approval has completed and the user it created is logged in.
ApprovedUserLoggedIn ==
    \E s \in Slots, c \in Clients :
        /\ accReqs[s].op = "approve" /\ accReqs[s].pc = "done" /\ accReqs[s].status = 200
        /\ session[c] # Null
        /\ ~users[session[c]].isAdmin
        /\ users[session[c]].username = accReqs[s].request.username

\* C10: a session is only ever established for a user with isApproved or isAdmin
\* set, and a login naming a user with neither flag is answered 401, whatever the
\* password, and leaves every session as it was.
OnlyUsableAccountsLogIn ==
    [][/\ \A c \in Clients :
             (session'[c] # session[c] /\ session'[c] # Null) =>
                (users[session'[c]].isApproved \/ users[session'[c]].isAdmin)
       /\ \A s \in Slots :
             ( /\ accReqs'[s] # accReqs[s] /\ accReqs'[s].op = "login"
               /\ accReqs'[s].id # Null
               /\ ~users[accReqs'[s].id].isApproved /\ ~users[accReqs'[s].id].isAdmin )
             => (accReqs'[s].status = 401 /\ session' = session)
      ]_vars

\* C10 witness: a login with the correct password of a user with neither flag was
\* answered 401, and no client holds a session of that user.
PendingUserRefused ==
    \E s \in Slots :
        /\ accReqs[s].op = "login" /\ accReqs[s].pc = "done" /\ accReqs[s].status = 401
        /\ accReqs[s].id # Null
        /\ ~users[accReqs[s].id].isApproved /\ ~users[accReqs[s].id].isAdmin
        /\ comparePasswords(accReqs[s].plain, users[accReqs[s].id].password)
        /\ \A c \in Clients : session[c] # accReqs[s].id

\* ------------------------------------------------------------------ claims: tasks, reports, lists
\* slot s takes the step that ends the run of its request
WorkSteps(s, op, pc) ==
    workReqs[s].op = op /\ workReqs[s].pc = pc /\ workReqs'[s].pc # pc

\* the columns of a task other than its status
TaskIdentityColumns ==
    {"title", "description", "priority", "assignedTo", "createdBy", "dueDate"}

\* C12: a PATCH /api/tasks/:id of a non-admin assignee changes at most the task's
\* status: title, description, priority, assignee, creator and due date are the
\* same after the update as before it, whatever the body carries.
AssigneePatchChangesStatusOnly ==
    [][\A s \in Slots :
        (/\ WorkSteps(s, "patchTask", "update")
         /\ ~users[workReqs[s].user].isAdmin
         /\ tasks[workReqs[s].id].assignedTo = workReqs[s].user)
        => \A f \in TaskIdentityColumns :
              tasks'[workReqs[s].id][f] = tasks[workReqs[s].id][f]]_vars

\* the rows of each kind that belong to a user
OwnTasks(u) == {t \in DOMAIN tasks : tasks[t].assignedTo = u}
OwnAttendance(u) == {a \in DOMAIN attendance : attendance[a].userId = u}
OwnReports(u) == {r \in DOMAIN workReports : workReports[r].userId = u}

\* what the three list routes answer a caller without the admin flag
StaffListsOwnOnly(s) ==
    /\ WorkSteps(s, "listTasks", "run") => workReqs'[s].result = OwnTasks(workReqs[s].user)
    /\ WorkSteps(s, "listAttendance", "run")
          => workReqs'[s].result = OwnAttendance(workReqs[s].user)
    /\ WorkSteps(s, "listReports", "run")
          => workReqs'[s].result = OwnReports(workReqs[s].user)

\* C13 (as stated): a caller without the admin flag is answered only its own
\* tasks, attendance records and reports; an admin is answered all records of each
\* kind.
ListsOwnOrAll ==
    [][\A s \in Slots : workReqs[s].pc = "run" =>
        IF users[workReqs[s].user].isAdmin
        THEN /\ WorkSteps(s, "listTasks", "run") => workReqs'[s].result = DOMAIN tasks
             /\ WorkSteps(s, "listAttendance", "run")
                   => workReqs'[s].result = DOMAIN attendance
             /\ WorkSteps(s, "listReports", "run")
                   => workReqs'[s].result = DOMAIN workReports
        ELSE StaffListsOwnOnly(s)]_vars

\* C13 (amended): ... an admin is answered all records of each kind, except that
\* GET /api/tasks?my=my answers an admin, too, with the admin's own tasks only.
ListsOwnOrAllUnlessMy ==
    [][\A s \in Slots : workReqs[s].pc = "run" =>
        IF users[workReqs[s].user].isAdmin
        THEN /\ WorkSteps(s, "listTasks", "run")
                   => workReqs'[s].result =
                         IF workReqs[s].body.my = "my" THEN OwnTasks(workReqs[s].user)
                         ELSE DOMAIN tasks
             /\ WorkSteps(s, "listAttendance", "run")
                   => workReqs'[s].result = DOMAIN attendance
             /\ WorkSteps(s, "listReports", "run")
                   => workReqs'[s].result = DOMAIN workReports
        ELSE StaffListsOwnOnly(s)]_vars

\* C13 witness: while somebody else's task and report exist, a staff member has
\* been answered her own task and her own report, and nothing else
StaffListedOwnRowsOnly ==
    /\ \E t \in DOMAIN tasks : tasks[t].assignedTo = 3
    /\ \E r \in DOMAIN workReports : workReports[r].userId = 1
    /\ workReqs[1].op = "listTasks" /\ workReqs[1].pc = "done" /\ workReqs[1].user = 2
    /\ workReqs[1].result # {} /\ workReqs[1].result = OwnTasks(2)
    /\ workReqs[2].op = "listReports" /\ workReqs[2].pc = "done" /\ workReqs[2].user = 2
    /\ workReqs[2].result # {} /\ workReqs[2].result = OwnReports(2)

\* C14: a work report's status is set only by an admin, and never by the user who
\* submitted the report.
NoSelfReview ==
    [][\A s \in Slots :
        (/\ WorkSteps(s, "setReportStatus", "run")
         /\ workReqs[s].id \in DOMAIN workReports
         /\ workReports'[workReqs[s].id].status # workReports[workReqs[s].id].status)
        => /\ users[workReqs[s].user].isAdmin
           /\ workReports[workReqs[s].id].userId # workReqs[s].user]_vars

\* the values the schema's comments give the enumerated columns
TaskPriorities == {"low", "medium", "high"}
TaskStatuses == {"pending", "in_progress", "completed"}
ReportStatuses == {"pending", "reviewed"}
RequestStatuses == {"pending", "approved", "rejected"}

\* C15: every task has a priority in {low, medium, high} and a status in {pending,
\* in_progress, completed}, every work report a status in {pending, reviewed},
\* every access request a status in {pending, approved, rejected}.
EnumeratedColumnsInRange ==
    /\ \A t \in DOMAIN tasks :
          tasks[t].priority \in TaskPriorities /\ tasks[t].status \in TaskStatuses
    /\ \A r \in DOMAIN workReports : workReports[r].status \in ReportStatuses
    /\ \A a \in DOMAIN accessRequests : accessRequests[a].status \in RequestStatuses

\* ------------------------------------------------------------------ claims: email
\* C18: a notification email that fails to be delivered is contained.  The send
\* function never rejects: when delivery fails (or email is not configured) its
\* promise resolves to false.  The step in which a send settles changes no table
\* and no request's answer; the request that sends a notification is answered
\* with its success status in the step that makes the call, before the send
\* settles.
EmailFailureContained ==
    [][/\ mails'.settled.result # "rejects"
       /\ mails'.settled.outcome \in {"unconfigured", "smtp_error"}
             => mails'.settled.result = "false"
       /\ mails.pending \ mails'.pending # {}
             => UNCHANGED <<users, accessRequests, tasks, workReports, accReqs, workReqs>>
       /\ mails'.pending \ mails.pending # {}
             => \/ \E s \in DOMAIN accReqs :
                      /\ accReqs[s].pc # "done" /\ accReqs'[s].pc = "done"
                      /\ accReqs'[s].status = 200
                \/ \E s \in DOMAIN workReqs :
                      /\ workReqs[s].pc # "done" /\ workReqs'[s].pc = "done"
                      /\ workReqs'[s].status = 201]_vars

\* C18 witness: the approval mail has failed after the approval was answered 200;
\* the user and the approved request are in place
ApprovalMailFailed ==
    /\ mails.settled.outcome = "smtp_error" /\ mails.pending = {}
    /\ accReqs[1].op = "approve" /\ accReqs[1].pc = "done" /\ accReqs[1].status = 200
    /\ accessRequests[accReqs[1].id].status = "approved"
    /\ UserNamed(users, accessRequests[accReqs[1].id].username)
    /\ tasks = <<>> /\ workReports = <<>>

\* ------------------------------------------------------------------ claims: the admin gate
\* client c has an authenticated session whose user has the admin flag
HoldsAdminSession(c) == session[c] # Null /\ users[session[c]].isAdmin

\* the request in slot s has been answered 403
Refused(reqs, s) == reqs[s].pc = "done" /\ reqs[s].status = 403

\* slot s has taken up an admin-only request that was not refused
Admitted(before, after, s) ==
    /\ before[s].pc \in {"idle", "done"}
    /\ after[s] # before[s]
    /\ ~Refused(after, s)

\* C11: an admin-only operation is carried out only for a caller whose session's
\* user is an admin.  A request of any other caller is answered 403 in the step in
\* which it arrives, and that step changes no table; a request of an admin is not
\* refused; and a slot takes up an admin-only request only from an admin.
AdminOperationsGated ==
    [][/\ \A s \in Slots, c \in Clients :
             AdminArrives(s, c) =>
                IF HoldsAdminSession(c)
                THEN /\ ~Refused(roleReqs', s) \/ roleReqs' = roleReqs
                     /\ ~Refused(accReqs', s) \/ accReqs' = accReqs
                     /\ ~Refused(workReqs', s) \/ workReqs' = workReqs
                ELSE /\ Refused(roleReqs', s) \/ roleReqs' = roleReqs
                     /\ Refused(accReqs', s) \/ accReqs' = accReqs
                     /\ Refused(workReqs', s) \/ workReqs' = workReqs
                     /\ UNCHANGED <<users, roles, nextRoleId, accessRequests, tasks,
                                    workReports, attendance, messages, mails>>
       /\ \A s \in Slots :
             (\/ Admitted(roleReqs, roleReqs', s)
              \/ Admitted(accReqs, accReqs', s)
              \/ Admitted(workReqs, workReqs', s) /\ workReqs'[s].op \in AdminWorkOps)
             => \E c \in Clients : HoldsAdminSession(c) /\ AdminArrives(s, c)]_vars

\* C11 witness: a staff member's request to approve the open access request has
\* been refused, the request is still pending and nobody was created; the admin
\* has created a role and a task
StaffRefusedAdminServed ==
    /\ accReqs[1].op = "approve" /\ Refused(accReqs, 1)
    /\ accessRequests = OpenRequests /\ Len(users) = 2
    /\ roleReqs[1].op = "create" /\ roleReqs[1].status = 201
    /\ workReqs[1].op = "createTask" /\ workReqs[1].status = 201 /\ Len(tasks) = 1

\* ------------------------------------------------------------------ claims: chat
\* the columns of a message that a delete leaves alone
MessageContentColumns == {"senderId", "content", "messageType", "mediaUrl", "createdAt"}

\* a chat request of slot s takes the step it is waiting at pc for
ChatSteps(s, op, pc) ==
    /\ chatReqs[s].op = op /\ chatReqs[s].pc = pc
    /\ chatReqs'[s] # chatReqs[s]

\* C16: deleting a message sets only that message's isDeleted flag.  The DELETE
\* request writes the table in its update step only; that step leaves the answers
\* of the read path (every row, in creation-time order) as they were, so the row
\* keeps its position and the row count, and changes no column of any row but
\* the isDeleted of the deleted one.
DeleteSetsOnlyTheFlag ==
    [][\A s \in Slots :
          /\ (ChatSteps(s, "deleteMessage", "run") \/ ChatSteps(s, "deleteMessage", "broadcast"))
                => messages' = messages
          /\ ChatSteps(s, "deleteMessage", "update") =>
                /\ getAllMessages(messages') = getAllMessages(messages)
                /\ \A order \in getAllMessages(messages') :
                      /\ Len(order) = Len(messages)
                      /\ \E i \in DOMAIN order : order[i] = chatReqs[s].id
                /\ Len(messages') = Len(messages)
                /\ messages'[chatReqs[s].id].isDeleted
                /\ \A i \in DOMAIN messages :
                      /\ \A col \in MessageContentColumns : messages'[i][col] = messages[i][col]
                      /\ i # chatReqs[s].id => messages'[i].isDeleted = messages[i].isDeleted]_vars

\* C16 witness: the chat holds two messages, one of them deleted, and a list
\* request has been answered with both of them
DeletedMessageListed ==
    \E s \in Slots :
        /\ chatReqs[s].op = "listMessages" /\ chatReqs[s].pc = "done"
        /\ chatReqs[s].status = 200
        /\ Len(chatReqs[s].result) = 2
        /\ \E i \in DOMAIN chatReqs[s].result :
              /\ chatReqs[s].result[i].id \in DOMAIN messages
              /\ chatReqs[s].result[i].isDeleted
              /\ chatReqs[s].result[i].content # ""


\* the request of slot 1 is answered with success in this step: 201 for a create,
\* 200 for a delete
ChatSucceeds(op, status) ==
    /\ chatReqs[1].op = op /\ chatReqs[1].pc # "done"
    /\ chatReqs'[1].pc = "done" /\ chatReqs'[1].status = status

\* the event a broadcast writes for the request of slot 1
EventOf(tag) == [type |-> tag, data |-> chatReqs[1].id]

\* send() was called with that event once on each connection that is in the set
\* and open, and not at all on any other connection
WrittenOnceToOpen(event) ==
    \A w \in Conns :
        sent'[w] = IF w \in clients /\ conns[w].readyState = "OPEN"
                   THEN <<event>> ELSE <<>>

\* C19: each successful create or delete makes exactly one broadcast: the step that
\* answers 201 (200) writes new_message (delete_message) once to every connection
\* of the set that is open at that moment and nothing to any other connection, and
\* no other step writes to a connection.
BroadcastOncePerSuccess ==
    [][IF ChatSucceeds("createMessage", 201) THEN WrittenOnceToOpen(EventOf("new_message"))
       ELSE IF ChatSucceeds("deleteMessage", 200) THEN WrittenOnceToOpen(EventOf("delete_message"))
       ELSE \A w \in Conns : sent'[w] = <<>>]_vars

\* C19 witness: a delete has been answered 200; the open connection was written
\* delete_message once, the connection of the set that is closing was not written
OpenWrittenClosingSkipped ==
    /\ chatReqs[1].op = "deleteMessage" /\ chatReqs[1].pc = "done"
    /\ chatReqs[1].status = 200
    /\ clients = {1, 2}
    /\ conns[1].readyState = "OPEN" /\ conns[2].readyState = "CLOSING"
    /\ sent[1] = <<[type |-> "delete_message", data |-> chatReqs[1].id]>>
    /\ sent[2] = <<>>

\* C20: the connection set holds exactly the connections whose last event was
\* "connection": those that have connected and have had no close or error since.
ConnectionSetExact ==
    clients = {w \in Conns : conns[w].last = "connection"}

\* C20 witness: both connections have connected, the first has had an error
\* since and is out of the set, the second is in it
ErroredOutConnectedIn ==
    /\ conns[1].last = "error" /\ conns[2].last = "connection"
    /\ clients = {2}

\* a write to connection w fails in this step
WriteFails(w) == ~conns[w].broken /\ conns'[w].broken

\* C17: a failed write in a broadcast is not raised to the HTTP caller: the step
\* answers the create with 201 (the delete with 200), keeps the stored rows, and
\* has written the event to every other open connection of the set; and the
\* failing connection leaves the connection set.
WriteFailureContained ==
    /\ [][\A w \in Conns :
            WriteFails(w) =>
               /\ \/ ChatSucceeds("createMessage", 201)
                  \/ ChatSucceeds("deleteMessage", 200)
               /\ messages' = messages
               /\ \A v \in clients \ {w} :
                     conns[v].readyState = "OPEN" => Len(sent'[v]) = 1]_vars
    /\ \A w \in 1..NumConns : (conns[w].broken ~> w \notin clients)

\* C17 witness: a create has been answered 201 although the write to connection 1
\* failed; connection 2 was written the event
FailedWriteAnswered ==
    /\ chatReqs[1].op = "createMessage" /\ chatReqs[1].pc = "done"
    /\ chatReqs[1].status = 201
    /\ conns[1].broken /\ 1 \in clients
    /\ sent[2] = <<[type |-> "new_message", data |-> chatReqs[1].id]>>
    /\ ~conns[2].broken


\* ------------------------------------------------------------------ claims: approval, decisions
\* C25: approval is all-or-nothing: in every state, whatever approve requests have
\* ended or are running, a user created from an access request exists only if
\* that request's status is approved; never while it is pending (or rejected).
ApprovalAllOrNothing ==
    \A i \in DOMAIN accessRequests :
        UserNamed(users, accessRequests[i].username) => accessRequests[i].status = "approved"

\* C26: a decision is final: a status that is approved or rejected never changes
\* again.
DecisionIsFinal ==
    [][\A i \in DOMAIN accessRequests :
          accessRequests[i].status # "pending" =>
             accessRequests'[i].status = accessRequests[i].status]_vars


\* ------------------------------------------------------------------ claims: closing a record
\* the clock-out request of slot s takes the step it is waiting at pc for
ClockOutSteps(s, pc) ==
    /\ attReqs[s].op = "clockout" /\ attReqs[s].pc = pc
    /\ attReqs'[s] # attReqs[s]

\* the records of the user without a clock-out, whatever their date
OpenRecords(userId) ==
    {i \in DOMAIN attendance :
        attendance[i].userId = userId /\ attendance[i].clockOut = Null}

\* C27 as stated: whenever a user has a record whose clockOut is null, a clock-out
\* request of that user succeeds, also when the date has changed since the
\* clock-in: the request's read is followed by the update, not by a 400.
OpenRecordCanBeClosed ==
    [][\A s \in Slots :
          (ClockOutSteps(s, "read") /\ OpenRecords(attReqs[s].user) # {})
             => attReqs'[s].pc = "write"]_vars

\* C27 as amended: a clock-out closes a record on the record's date only.  The
\* read looks at the records of (user, date of arrival): when the record it
\* returns has clockOut null the request goes on, sets that record's clockOut and
\* is answered 200; when the user has no record for that date the request is
\* answered 400 and changes nothing, whatever open records of earlier dates the
\* user has.
OpenRecordClosedOnItsDate ==
    [][\A s \in Slots :
          /\ ClockOutSteps(s, "read") =>
                /\ attendance' = attendance
                /\ attReqs'[s].existing \in
                      getTodayAttendance(attReqs[s].user, attReqs[s].today)
                /\ IF TodayRows(attReqs[s].user, attReqs[s].today) = {}
                   THEN attReqs'[s].pc = "done" /\ attReqs'[s].status = 400
                   ELSE attendance[attReqs'[s].existing].clockOut = Null
                           => attReqs'[s].pc = "write"
          /\ ClockOutSteps(s, "write") =>
                /\ attReqs'[s].pc = "done" /\ attReqs'[s].status = 200
                /\ attendance'[attReqs[s].existing].clockOut # Null
                /\ attendance[attReqs[s].existing].userId = attReqs[s].user
                /\ attendance[attReqs[s].existing].date = attReqs[s].today]_vars

\* C27 witness: one user has clocked in and out on the first day (200); the other
\* clocked in on the first day, asked for clock-out on the next and was answered
\* 400, the record still open
ClosedSameDayLeftOpenNextDay ==
    \E s1, s2 \in Slots :
        /\ attReqs[s1].op = "clockout" /\ attReqs[s1].pc = "done" /\ attReqs[s1].status = 200
        /\ attendance[attReqs[s1].existing].clockOut # Null
        /\ attReqs[s2].op = "clockout" /\ attReqs[s2].pc = "done" /\ attReqs[s2].status = 400
        /\ attReqs[s2].existing = Null
        /\ \E i \in OpenRecords(attReqs[s2].user) : attendance[i].date < attReqs[s2].today


\* ------------------------------------------------------------------ claims: password verification
\* a stored string that hashPassword cannot have produced: no separator, an empty
\* salt part, or a hash part that does not decode to KeyLen bytes
MalformedStored(stored) ==
    \/ ~SplitStored(stored).saltDefined
    \/ SplitStored(stored).salt = <<>>
    \/ Len(BufferFromHex(SplitStored(stored).hashed)) # KeyLen

\* C23: comparePasswords ends with true or false for every input, and with false
\* for a malformed stored string; it never throws.
ComparePasswordsFailsClosed ==
    /\ pwCheck.outcome \in {"none", "true", "false"}
    /\ (pwCheck.outcome # "none" /\ MalformedStored(pwCheck.stored))
          => pwCheck.outcome = "false"


\* ------------------------------------------------------------------ claims: status codes
\* the step answers the request of slot s with that status (or repeats the answer
\* the slot already holds)
AnsweredWith(before, after, s, code) ==
    after = before \/ (after[s].pc = "done" /\ after[s].status = code)

\* C24: the status of a refused request reflects its failure class.  On the
\* admin-only routes: a caller without a session is answered 401, a caller with a
\* session but without the admin flag 403; creating a role whose name is taken (a
\* duplicate unique key) is answered 400.
StatusReflectsFailureClass ==
    [][\A s \in Slots, c \in Clients :
          /\ (AdminArrives(s, c) /\ session[c] = Null) =>
                /\ AnsweredWith(roleReqs, roleReqs', s, 401)
                /\ AnsweredWith(accReqs, accReqs', s, 401)
                /\ AnsweredWith(workReqs, workReqs', s, 401)
          /\ (AdminArrives(s, c) /\ session[c] # Null /\ ~users[session[c]].isAdmin) =>
                /\ AnsweredWith(roleReqs, roleReqs', s, 403)
                /\ AnsweredWith(accReqs, accReqs', s, 403)
                /\ AnsweredWith(workReqs, workReqs', s, 403)
          /\ (RoleCreate(s, c, "dev") /\ HoldsAdminSession(c) /\ \E r \in roles : r.name = "dev") =>
                AnsweredWith(roleReqs, roleReqs', s, 400)]_vars


\* ------------------------------------------------------------------ claims: password hashes
\* C30: no response body holds a stored password hash: every user object a route
\* answers with (the user list, the current user, the updated profile, the sender
\* nested in each message of the message list) has no password property.
NoPasswordInBodies ==
    /\ \A s \in DOMAIN userReqs :
          userReqs[s].status = 200 =>
             \A i \in DOMAIN userReqs[s].result :
                "password" \notin DOMAIN userReqs[s].result[i]
    /\ \A s \in DOMAIN chatReqs :
          (chatReqs[s].op = "listMessages" /\ chatReqs[s].status = 200) =>
             \A i \in DOMAIN chatReqs[s].result :
                "password" \notin DOMAIN chatReqs[s].result[i].sender


\* ------------------------------------------------------------------ claims: events and the read path
\* the list a GET /api/messages answers with holds the change the event announces
ReadPathHolds(event) ==
    /\ event.data \in DOMAIN messages
    /\ \A order \in getAllMessages(messages) :
          \E i \in DOMAIN order :
             /\ MessageWithSender(order[i]).id = event.data
             /\ event.type = "delete_message" => MessageWithSender(order[i]).isDeleted

\* C28: an event is written only after its change is stored: when a connection
\* has been written new_message the row is in the table, when it has been written
\* delete_message the row's isDeleted is set; and no later step takes a row out
\* of the table or clears an isDeleted flag, so every read that follows the event
\* holds the change.
EventFollowsWrite ==
    /\ [](\A w \in 1..NumConns : \A k \in DOMAIN sent[w] : ReadPathHolds(sent[w][k]))
    /\ [][/\ Len(messages') >= Len(messages)
          /\ \A i \in DOMAIN messages : messages[i].isDeleted => messages'[i].isDeleted]_vars

\* C28 witness: the second message has just been announced to connection 1, and
\* the first message had been deleted before
SecondMessageAnnounced ==
    /\ sent[1] = <<[type |-> "new_message", data |-> 2]>>
    /\ Len(messages) = 2 /\ messages[1].isDeleted /\ ~messages[2].isDeleted

\* ------------------------------------------------------------------ claims: the chat page
\* C29: the browser holds a socket of the chat page only while the page is
\* mounted, and at most one; while the page stays unmounted no reconnect timer
\* fires and no socket is created.
ConnectionsFollowMounts ==
    /\ [](Cardinality(LiveSocks) <= IF page.mounted THEN 1 ELSE 0)
    /\ [][~page.mounted /\ ~page'.mounted =>
            \A w \in DOMAIN socks :
               /\ socks[w].timer => socks'[w].timer
               /\ socks'[w].state = "CONNECTING" => socks[w].state = "CONNECTING"]_vars

\* the mounted page's socket is in the server's connection set
Registered == page.mounted /\ page.wsRef \in clients

\* C22: when the socket of the mounted page is closed, a socket that replaces it
\* is created without any step of the user, unless the page is unmounted first;
\* and while the server accepts handshakes a mounted page that is not in the
\* server's connection set gets into it, unless it is unmounted first.
ReconnectsByItself ==
    /\ \A w \in 1..NumConns :
          (page.mounted /\ page.wsRef = w /\ socks[w].state = "CLOSED")
             ~> (~page.mounted \/ socks[w].state \in {"CONNECTING", "OPEN"})
    /\ (page.mounted /\ ~Registered) ~> (~page.mounted \/ Registered)

\* the mounted page is registered through a socket the reconnect timer created
RegisteredAgain == Registered /\ socks[page.wsRef].reconnected

\* the query's data is the list the read path answers with now
ShownEqualsRepository ==
    \E order \in getAllMessages(messages) :
       page.data = [i \in DOMAIN order |-> MessageWithSender(order[i])]

\* C21: with no connection registered at any time, if from some point on no
\* message is created or deleted then from some point on the mounted page's list
\* equals the repository's list.
PollingReconstructs ==
    <>[][messages' = messages]_vars => <>[](page.mounted => ShownEqualsRepository)

\* the page, which never received an event, shows both messages, one of them
\* as deleted
DeletionSeenByPolling ==
    /\ clients = {} /\ page.mounted
    /\ Len(page.data) = MaxMsgs
    /\ \E i \in DOMAIN page.data : page.data[i].isDeleted
    /\ ShownEqualsRepository

====
